---- MODULE Spec2Model ----
(***************************************************************************)
(* A model of the cligent session engine: the single-session driver        *)
(* runAgent and the parallel driver runParallel (engine.ts), over          *)
(* arbitrary adapters, arbitrary cancellation timing and a consumer that   *)
(* pulls the returned stream.                                              *)
(*                                                                         *)
(* An async generator is modelled by its suspension points: the driver's   *)
(* position pc names the yield or await at which it is suspended, and one  *)
(* action runs the code between two suspension points atomically, as the   *)
(* single-threaded runtime does.  An awaited race is settled by the first  *)
(* of its inputs to settle; the driver resumes in a later step, so the     *)
(* token may trip between the two.                                         *)
(***************************************************************************)
EXTENDS Integers, Sequences, FiniteSets, TLC

(***************************************************************************)
(* Bounds of the model.                                                    *)
(***************************************************************************)
\* the number of events one adapter stream may yield
MaxEvents == 3
\* the number of tasks handed to runParallel
MaxTasks == 2
\* the number of events the adapter streams may yield in all under runParallel
MaxParEvents == 2
\* the number of backend messages one run of a built-in adapter may read
MaxMsgs == 3
\* the number of bytes of the line framer's input
MaxBytes == 4
\* the number of calls made on one AdapterRegistry
MaxOps == 5
\* the length of the allowedTools and disallowedTools arrays of the options
MaxTools == 2

VARIABLES
  \* ---- runAgent (single-session driver) ----
  registered,     \* registry.get(agent) finds an adapter
  hasSignal,      \* options?.abortSignal is present
  aborted,        \* signal.aborted
  runThrows,      \* adapter behaviour: the call adapter.run() itself raises
  pc,             \* the driver's suspension point
  gen,            \* the adapter's generator: none | idle | running | completed
  returnCalled,   \* safeReturn(gen) has been called
  race,           \* the awaited raceAbort(gen.next(), signal)
  produced,       \* the events the adapter's stream has yielded so far
  out,            \* the events delivered to the consumer so far
  lastSessionId,
  doneYielded,
  runInvoked,     \* adapter.run() has been called
  outcome,        \* the driver's stream: open | returned | threw
  trip,           \* history: where the driver stood when the token tripped
  \* ---- runParallel (parallel driver) ----
  ntasks,         \* tasks.length
  psignal,        \* psignal[i]: task i carries an abortSignal
  paborted,       \* paborted[i]: that signal is aborted
  pthrows,        \* adapter behaviour: task i's adapter.run() itself raises
  pgen,           \* pgen[i]: task i's generator: none | idle | running | completed
  preturn,        \* preturn[i]: safeReturn was called on task i's generator
  ppc,            \* the parallel driver's suspension point
  states,         \* states[i]: AdapterState of task i, or Null
  pending,        \* the keys of the pending map, in insertion order
  settled,        \* settled[i]: the RaceResult of task i's pending promise
  abortResolved,  \* abortPromise is resolved
  winner,         \* the result of the awaited Promise.race
  queue,          \* the events a for-of over an array is still to yield
  pproduced,      \* pproduced[i]: the events task i's adapter has yielded
  pout,           \* the merged stream delivered to the consumer so far
  prunInvoked,    \* prunInvoked[i]: task i's adapter.run() has been called
  poutcome,       \* the parallel driver's stream: open | returned | threw
  ptrip,          \* history: where the driver stood at the first trip and
                  \* how long pout was when it handled the trip
  \* ---- one run of a built-in adapter ----
  adapter,        \* which adapter's run(): claude-code | codex | gemini | opencode
  asignal,        \* options?.abortSignal is present
  aaborted,       \* that signal is aborted
  apc,            \* the run's position: start | stream | awaitclose | late |
                  \* ending | finally | finwait | closed | failed
  asessionId,     \* the run's local sessionId
  initYielded,
  adoneYielded,   \* the run's local doneYielded
  amsgs,          \* the number of backend messages read so far
  aqueue,         \* the events the current step is still to yield
  aout,           \* the events the run has yielded so far
  aend,           \* history: how the backend stream ended, and the token then
  child,          \* the spawned process (gemini CLI, managed opencode server):
                  \* none | running | closed
  killAt,         \* history: Len(aout) when SIGTERM was first sent, or -1
  override,       \* gemini's settings-override directory: none | created | deleted
  client,         \* opencode's SDK client: none | open | closed | failed
  aforeign,       \* history: the message read last belonged to another session
  \* ---- the line framer ----
  finput,         \* the bytes of the stream
  fcuts,          \* after which bytes the stream is cut into chunks
  fpos,           \* the number of bytes read so far
  fbuffer,        \* parseNDJSON's buffer
  ftext,          \* history: the decoded chunks read so far, concatenated
  fresults,       \* the parse results yielded so far
  fpc,            \* read | done
  \* ---- AdapterRegistry ----
  regAdapters,    \* the Map: <<agent, adapter>> entries in insertion order
  regCall,        \* the last call, its result and the Map before it
  regCount,       \* the number of calls made so far
  regStamp,       \* history: per name, the call of its latest successful
                  \* registration (0: not registered)
  \* ---- the option mappings ----
  optFn,          \* the mapping under study
  optPolicy,      \* its PermissionPolicy argument
  optTool,        \* the tool context the SDK asks the callback about
  optOptions,     \* its AgentOptions argument
  optPrompt,      \* its prompt argument
  optResult,      \* what it returned
  \* ---- the abort listener of one adapter run ----
  ladapter,       \* the adapter whose run is followed
  labortSignal,   \* options.abortSignal: none, live or aborted
  lresume,        \* options.resume is given
  lsdk,           \* what the loaded Codex SDK offers
  lpc,            \* where run is
  lonAbort,       \* onAbort is a listener of options.abortSignal
  lpulls          \* the events run has yielded

dvars == <<registered, hasSignal, aborted, runThrows, pc, gen, returnCalled,
           race, produced, out, lastSessionId, doneYielded, runInvoked,
           outcome, trip>>

pvars == <<ntasks, psignal, paborted, pthrows, pgen, preturn, ppc, states,
           pending, settled, abortResolved, winner, queue, pproduced, pout,
           prunInvoked, poutcome, ptrip>>

avars == <<adapter, asignal, aaborted, apc, asessionId, initYielded,
           adoneYielded, amsgs, aqueue, aout, aend,
           child, killAt, override, client, aforeign>>

fvars == <<finput, fcuts, fpos, fbuffer, ftext, fresults, fpc>>

rvars == <<regAdapters, regCall, regCount, regStamp>>

ovars == <<optFn, optPolicy, optTool, optOptions, optPrompt, optResult>>

lvars == <<ladapter, labortSignal, lresume, lsdk, lpc, lonAbort, lpulls>>

\* what the single-session driver leaves alone
nondrive == <<pvars, avars, fvars, rvars, ovars, lvars>>

vars == <<dvars, pvars, avars, fvars, rvars, ovars, lvars>>

(***************************************************************************)
(* Events (types.ts) and the helpers that build them (events.ts,           *)
(* engine.ts).  task is the session an event belongs to (0 under           *)
(* runAgent); origin tells an adapter's event object from one the driver   *)
(* built.                                                                  *)
(***************************************************************************)
Null == "null"

\* session ids an adapter may put on its events
Sids == {"sidA", "sidB"}

\* generateSessionId(): a fresh id; n tells the calls apart
generateSessionId(n) == <<"uuid", n>>

ZeroUsage == [inputTokens |-> 0, outputTokens |-> 0, toolUses |-> 0]
AdapterUsage == [inputTokens |-> 10, outputTokens |-> 20, toolUses |-> 1]

\* event types other than done that an adapter may yield: a canonical one and
\* a namespaced extension
NonDoneTypes == {"text", "ext:note"}

\* done statuses an adapter may report itself
AdapterDoneStatus == {"success", "interrupted"}

createEvent(type, task, payload, sessionId, origin) ==
  [type |-> type, task |-> task, sessionId |-> sessionId,
   origin |-> origin, payload |-> payload]

AdapterEvents(task) ==
  { createEvent(t, task, [content |-> "c"], s, "adapter") :
      t \in NonDoneTypes, s \in Sids }
  \cup
  { createEvent("done", task, [status |-> st, usage |-> AdapterUsage], s, "adapter") :
      st \in AdapterDoneStatus, s \in Sids }

\* values an adapter may throw: an Error object, or a non-Error value
Exceptions ==
  { [isError |-> TRUE,  message |-> "boom", string |-> "Error: boom"],
    [isError |-> FALSE, message |-> "",     string |-> "oops"] }

\* String(err) for every thrown value
ErrText_String(err) == err.string

\* err instanceof Error ? err.message : String(err)
ErrText(err) == IF err.isError THEN err.message ELSE err.string

\* a synthesized done that always carries the id the driver seeded
makeSynthDone_SeedSid(task, status, sessionId) ==
  createEvent("done", task, [status |-> status, usage |-> ZeroUsage],
              generateSessionId(task), "driver")

makeSynthDone(task, status, sessionId) ==
  createEvent("done", task, [status |-> status, usage |-> ZeroUsage],
              sessionId, "driver")

\* a synthesized error marked recoverable
makeSynthError_Recoverable(task, code, message, sessionId) ==
  createEvent("error", task,
              [code |-> code, message |-> message, recoverable |-> TRUE],
              sessionId, "driver")

makeSynthError(task, code, message, sessionId) ==
  createEvent("error", task,
              [code |-> code, message |-> message, recoverable |-> FALSE],
              sessionId, "driver")

MissingDoneMessage == "Protocol violation: adapter completed without terminal event"

\* a type test that never recognises a done
IsDone_Never(e) == FALSE

\* event.type === 'done'
IsDone(e) == e.type = "done"

(***************************************************************************)
(* raceAbort(gen.next(), signal): what the awaited promise is at the call. *)
(* With the signal already aborted it is resolved {done: true} at once;    *)
(* otherwise it is pending until the pull or the abort listener settles    *)
(* it.                                                                     *)
(***************************************************************************)
Pending == [kind |-> "pending"]
AbortSentinel == [kind |-> "abort"]

raceAbort(sig, ab) == IF sig /\ ab THEN AbortSentinel ELSE Pending

(***************************************************************************)
(* runAgent                                                                *)
(***************************************************************************)
NoTrip == [at |-> -1, pc |-> "-", race |-> "-", done |-> FALSE]

DriveInit ==
  /\ registered \in BOOLEAN
  /\ hasSignal \in BOOLEAN
  /\ runThrows \in BOOLEAN
  /\ aborted = FALSE
  /\ pc = "start"
  /\ gen = "none"
  /\ returnCalled = FALSE
  /\ race = Pending
  /\ produced = <<>>
  /\ out = <<>>
  /\ lastSessionId = Null
  /\ doneYielded = FALSE
  /\ runInvoked = FALSE
  /\ outcome = "open"
  /\ trip = NoTrip

\* gen.return(): a generator suspended at a yield completes; one that is
\* running completes once the step it is in settles
safeReturn(g) == IF g = "idle" THEN "completed" ELSE g

\* no look at signal.aborted after the await: only the race's own result
Classify_NoAbortCheck(r, sig, ab) ==
  IF r.kind = "threw" THEN "threw"
  ELSE IF r.kind = "abort" THEN "aborted"
  ELSE IF r.kind = "exhausted" THEN "exhausted"
  ELSE "value"

\* the order in which runAgent examines what it awaited: the catch clause,
\* then signal.aborted, then result.done, then the event
Classify(r, sig, ab) ==
  IF r.kind = "threw" THEN "threw"
  ELSE IF sig /\ ab THEN "aborted"
  ELSE IF r.kind = "exhausted" THEN "exhausted"
  ELSE "value"

\* the generator behind the adapter's stream settles the pull it is running
Settle(r) ==
  /\ gen = "running"
  /\ race' = IF pc = "await" /\ race.kind = "pending" THEN r ELSE race
  /\ UNCHANGED <<registered, hasSignal, aborted, runThrows, pc, returnCalled,
                 out, lastSessionId, doneYielded, runInvoked, outcome, trip>>

AdapterYield ==
  /\ Len(produced) < MaxEvents
  /\ \E e \in AdapterEvents(0) :
       /\ Settle([kind |-> "value", value |-> e])
       /\ produced' = Append(produced, e)
  /\ gen' = IF returnCalled THEN "completed" ELSE "idle"
  /\ UNCHANGED nondrive

AdapterReturn ==
  /\ Settle([kind |-> "exhausted"])
  /\ gen' = "completed"
  /\ UNCHANGED produced
  /\ UNCHANGED nondrive

AdapterThrow ==
  /\ \E x \in Exceptions : Settle([kind |-> "threw", error |-> x])
  /\ gen' = "completed"
  /\ UNCHANGED produced
  /\ UNCHANGED nondrive

\* controller.abort(): the token trips; the listener raceAbort registered
\* resolves a race that is still pending
Abort ==
  /\ hasSignal /\ ~aborted
  /\ outcome = "open"
  /\ aborted' = TRUE
  /\ race' = IF pc = "await" /\ race.kind = "pending" THEN AbortSentinel ELSE race
  /\ trip' = [at |-> Len(out), pc |-> pc, race |-> race.kind,
              done |-> \E i \in 1..Len(out) : IsDone(out[i])]
  /\ UNCHANGED <<registered, hasSignal, runThrows, pc, gen, returnCalled,
                 produced, out, lastSessionId, doneYielded, runInvoked, outcome>>
  /\ UNCHANGED nondrive

\* first pull, no adapter registered: throw new Error('No adapter registered')
DriveUnknown ==
  /\ pc = "start" /\ ~registered
  /\ pc' = "closed"
  /\ outcome' = "threw"
  /\ UNCHANGED <<registered, hasSignal, aborted, runThrows, gen, returnCalled,
                 race, produced, out, lastSessionId, doneYielded, runInvoked, trip>>
  /\ UNCHANGED nondrive

\* no short-circuit: the adapter is run although the signal is aborted
DrivePreAborted_RunsAdapter ==
  /\ pc = "start" /\ registered
  /\ hasSignal /\ aborted
  /\ runInvoked' = TRUE
  /\ lastSessionId' = generateSessionId(0)
  /\ gen' = "running"
  /\ race' = AbortSentinel
  /\ pc' = "await"
  /\ UNCHANGED <<registered, hasSignal, aborted, runThrows, returnCalled,
                 produced, out, doneYielded, outcome, trip>>
  /\ UNCHANGED nondrive

\* first pull, signal already aborted: yield the synthesized done
DrivePreAborted ==
  /\ pc = "start" /\ registered
  /\ hasSignal /\ aborted
  /\ out' = Append(out, makeSynthDone(0, "interrupted", generateSessionId(0)))
  /\ pc' = "y_preabort"
  /\ UNCHANGED <<registered, hasSignal, aborted, runThrows, gen, returnCalled,
                 race, produced, lastSessionId, doneYielded, runInvoked,
                 outcome, trip>>
  /\ UNCHANGED nondrive

\* first pull: adapter.run() raises at the call, outside the try block
DriveRunThrows ==
  /\ pc = "start" /\ registered
  /\ ~(hasSignal /\ aborted)
  /\ runThrows
  /\ runInvoked' = TRUE
  /\ lastSessionId' = generateSessionId(0)
  /\ pc' = "closed"
  /\ outcome' = "threw"
  /\ UNCHANGED <<registered, hasSignal, aborted, runThrows, gen, returnCalled,
                 race, produced, out, doneYielded, trip>>
  /\ UNCHANGED nondrive

\* first pull: gen = adapter.run(...), then the first raceAbort(gen.next())
DriveStart ==
  /\ pc = "start" /\ registered
  /\ ~(hasSignal /\ aborted)
  /\ ~runThrows
  /\ runInvoked' = TRUE
  /\ lastSessionId' = generateSessionId(0)
  /\ gen' = "running"
  /\ race' = raceAbort(hasSignal, aborted)
  /\ pc' = "await"
  /\ UNCHANGED <<registered, hasSignal, aborted, runThrows, returnCalled,
                 produced, out, doneYielded, outcome, trip>>
  /\ UNCHANGED nondrive

\* return: the stream ends; the finally block calls safeReturn(gen) unless
\* doneYielded (every return path that sets doneYielded called it already)
DriveReturn ==
  /\ pc' = "closed"
  /\ outcome' = "returned"
  /\ returnCalled' = TRUE
  /\ gen' = safeReturn(gen)

\* the catch clause: the adapter threw
ResumeThrew ==
  /\ pc = "await" /\ race.kind # "pending"
  /\ Classify(race, hasSignal, aborted) = "threw"
  /\ IF ~doneYielded
       THEN /\ out' = Append(out, makeSynthError(0, "ADAPTER_ERROR",
                                     ErrText(race.error), lastSessionId))
            /\ pc' = "y_adapter_error"
            /\ UNCHANGED <<gen, returnCalled, outcome>>
       ELSE DriveReturn /\ UNCHANGED out
  /\ UNCHANGED <<registered, hasSignal, aborted, runThrows, race, produced,
                 lastSessionId, doneYielded, runInvoked, trip>>
  /\ UNCHANGED nondrive

\* if (signal?.aborted) after the await
ResumeAborted ==
  /\ pc = "await" /\ race.kind # "pending"
  /\ Classify(race, hasSignal, aborted) = "aborted"
  /\ IF ~doneYielded
       THEN /\ out' = Append(out, makeSynthDone(0, "interrupted", lastSessionId))
            /\ pc' = "y_interrupted"
            /\ UNCHANGED <<gen, returnCalled, outcome>>
       ELSE DriveReturn /\ UNCHANGED out
  /\ UNCHANGED <<registered, hasSignal, aborted, runThrows, race, produced,
                 lastSessionId, doneYielded, runInvoked, trip>>
  /\ UNCHANGED nondrive

\* if (result.done): the generator is exhausted
ResumeExhausted ==
  /\ pc = "await" /\ race.kind # "pending"
  /\ Classify(race, hasSignal, aborted) = "exhausted"
  /\ IF ~doneYielded
       THEN /\ out' = Append(out, makeSynthError(0, "MISSING_DONE",
                                     MissingDoneMessage, lastSessionId))
            /\ pc' = "y_missing_error"
            /\ UNCHANGED <<gen, returnCalled, outcome>>
       ELSE DriveReturn /\ UNCHANGED out
  /\ UNCHANGED <<registered, hasSignal, aborted, runThrows, race, produced,
                 lastSessionId, doneYielded, runInvoked, trip>>
  /\ UNCHANGED nondrive

\* the top of the while loop: result = await raceAbort(gen.next(), signal)
DrivePull ==
  /\ gen' = IF gen = "idle" THEN "running" ELSE gen
  /\ race' = IF gen = "completed" /\ ~(hasSignal /\ aborted)
               THEN [kind |-> "exhausted"]
               ELSE raceAbort(hasSignal, aborted)
  /\ pc' = "await"

\* the event is re-stamped with the driver's session id before it is yielded
ResumeValue_Restamp ==
  /\ pc = "await" /\ race.kind # "pending"
  /\ Classify(race, hasSignal, aborted) = "value"
  /\ IF doneYielded
       THEN DrivePull /\ UNCHANGED <<out, lastSessionId>>
       ELSE /\ lastSessionId' = lastSessionId
            /\ out' = Append(out, [race.value EXCEPT !.sessionId = lastSessionId])
            /\ pc' = "y_event"
            /\ UNCHANGED <<gen, race>>
  /\ UNCHANGED <<registered, hasSignal, aborted, runThrows, returnCalled,
                 produced, doneYielded, runInvoked, outcome, trip>>
  /\ UNCHANGED nondrive

\* const event = result.value: suppressed after done, else yielded as it is
ResumeValue ==
  /\ pc = "await" /\ race.kind # "pending"
  /\ Classify(race, hasSignal, aborted) = "value"
  /\ IF doneYielded
       THEN DrivePull /\ UNCHANGED <<out, lastSessionId>>
       ELSE /\ lastSessionId' = race.value.sessionId
            /\ out' = Append(out, race.value)
            /\ pc' = "y_event"
            /\ UNCHANGED <<gen, race>>
  /\ UNCHANGED <<registered, hasSignal, aborted, runThrows, returnCalled,
                 produced, doneYielded, runInvoked, outcome, trip>>
  /\ UNCHANGED nondrive

\* the consumer pulls again after the pre-aborted done: return
PullPreAbort ==
  /\ pc = "y_preabort"
  /\ pc' = "closed"
  /\ outcome' = "returned"
  /\ UNCHANGED <<registered, hasSignal, aborted, runThrows, gen, returnCalled,
                 race, produced, out, lastSessionId, doneYielded, runInvoked, trip>>
  /\ UNCHANGED nondrive

\* the synthesized error is not followed by a done: the stream just ends
PullSynthError_NoDone ==
  /\ pc \in {"y_adapter_error", "y_missing_error"}
  /\ pc' = "closed"
  /\ outcome' = "returned"
  /\ returnCalled' = TRUE
  /\ gen' = IF gen = "idle" THEN "completed" ELSE gen
  /\ UNCHANGED <<registered, hasSignal, aborted, runThrows, race, produced,
                 out, lastSessionId, doneYielded, runInvoked, trip>>
  /\ UNCHANGED nondrive

\* after the synthesized error of either kind: yield makeSynthDone(.., 'error')
PullSynthError ==
  /\ pc \in {"y_adapter_error", "y_missing_error"}
  /\ out' = Append(out, makeSynthDone(0, "error", lastSessionId))
  /\ pc' = IF pc = "y_adapter_error" THEN "y_adapter_done" ELSE "y_missing_done"
  /\ UNCHANGED <<registered, hasSignal, aborted, runThrows, gen, returnCalled,
                 race, produced, lastSessionId, doneYielded, runInvoked,
                 outcome, trip>>
  /\ UNCHANGED nondrive

\* after a synthesized done: safeReturn(gen) and return
PullSynthDone ==
  /\ pc \in {"y_adapter_done", "y_missing_done", "y_interrupted"}
  /\ DriveReturn
  /\ UNCHANGED <<registered, hasSignal, aborted, runThrows, race, produced,
                 out, lastSessionId, doneYielded, runInvoked, trip>>
  /\ UNCHANGED nondrive

\* after yield event: a done ends the stream, anything else loops
PullEvent ==
  /\ pc = "y_event"
  /\ IF IsDone(out[Len(out)])
       THEN /\ doneYielded' = TRUE
            /\ DriveReturn
            /\ UNCHANGED race
       ELSE /\ DrivePull
            /\ UNCHANGED <<doneYielded, returnCalled, outcome>>
  /\ UNCHANGED <<registered, hasSignal, aborted, runThrows, produced, out,
                 lastSessionId, runInvoked, trip>>
  /\ UNCHANGED nondrive

DriveNext ==
  \/ Abort
  \/ AdapterYield
  \/ AdapterReturn
  \/ AdapterThrow
  \/ DriveUnknown
  \/ DrivePreAborted
  \/ DriveRunThrows
  \/ DriveStart
  \/ ResumeThrew
  \/ ResumeAborted
  \/ ResumeExhausted
  \/ ResumeValue
  \/ PullPreAbort
  \/ PullSynthError
  \/ PullSynthDone
  \/ PullEvent

(***************************************************************************)
(* runParallel                                                             *)
(***************************************************************************)
Tasks == 1..ntasks

\* the session id on the k-th event of an adapter stream under runParallel:
\* a stream that changes its id with every event
ParSid(k) == IF k % 2 = 1 THEN "sidA" ELSE "sidB"

\* the adapter events a task of runParallel may yield as its k-th
ParEvents(task, k) ==
  { createEvent("text", task, [content |-> "c"], ParSid(k), "adapter"),
    createEvent("done", task, [status |-> "success", usage |-> AdapterUsage],
                ParSid(k), "adapter") }

NoPromise == [kind |-> "none"]
NoWinner == [kind |-> "none"]
AbortWins == [kind |-> "abort"]
TaskWins(i) == [kind |-> "task", index |-> i]

At(a) == [at |-> a, index |-> 0]
AtTask(a, i) == [at |-> a, index |-> i]

\* ready: a pull of some task had settled when the token tripped
NoParTrip == [at |-> -1, pc |-> "-", handledAt |-> -1, ready |-> FALSE]

ParInit ==
  /\ ntasks \in 0..MaxTasks
  /\ psignal \in { f \in [Tasks -> BOOLEAN] : Cardinality({ i \in Tasks : f[i] }) <= 1 }
  /\ pthrows \in [Tasks -> BOOLEAN]
  /\ paborted = [i \in Tasks |-> FALSE]
  /\ pgen = [i \in Tasks |-> "none"]
  /\ preturn = [i \in Tasks |-> FALSE]
  /\ ppc = At("start")
  /\ states = [i \in Tasks |-> [live |-> FALSE, sessionId |-> Null, doneYielded |-> FALSE]]
  /\ pending = <<>>
  /\ settled = [i \in Tasks |-> NoPromise]
  /\ abortResolved = FALSE
  /\ winner = NoWinner
  /\ queue = <<>>
  /\ pproduced = [i \in Tasks |-> <<>>]
  /\ pout = <<>>
  /\ prunInvoked = [i \in Tasks |-> FALSE]
  /\ poutcome = "open"
  /\ ptrip = NoParTrip

\* Promise.race([...pending.values(), abortPromise]) at the moment it is
\* built: of the promises already settled the first in array order wins (the
\* pending map's insertion order, abortPromise last); with none settled the
\* race stays open for the first to settle
PromiseRace(pend, setl, abortRes) ==
  LET ready == { k \in 1..Len(pend) : setl[pend[k]].kind # "pending" } IN
    IF ready # {}
      THEN TaskWins(pend[CHOOSE k \in ready : \A m \in ready : k <= m])
      ELSE IF abortRes THEN AbortWins ELSE NoWinner

\* a done{interrupted} for every task, finished or not
RECURSIVE InterruptedEvents_All(_, _)
InterruptedEvents_All(st, i) ==
  IF i > Len(st) THEN <<>>
  ELSE <<makeSynthDone(i, "interrupted", st[i].sessionId)>>
         \o InterruptedEvents_All(st, i + 1)

\* the done{interrupted} events carry a fresh session id
RECURSIVE InterruptedEvents_FreshSid(_, _)
InterruptedEvents_FreshSid(st, i) ==
  IF i > Len(st) THEN <<>>
  ELSE (IF st[i].live /\ ~st[i].doneYielded
          THEN <<makeSynthDone(i, "interrupted", generateSessionId(i))>>
          ELSE <<>>) \o InterruptedEvents_FreshSid(st, i + 1)

\* yieldInterruptedAndCleanup(): one done{interrupted} for every state that
\* is neither null nor doneYielded, in task order
RECURSIVE InterruptedEvents(_, _)
InterruptedEvents(st, i) ==
  IF i > Len(st) THEN <<>>
  ELSE (IF st[i].live /\ ~st[i].doneYielded
          THEN <<makeSynthDone(i, "interrupted", st[i].sessionId)>>
          ELSE <<>>) \o InterruptedEvents(st, i + 1)

\* what the parallel driver leaves alone
nonpar == <<dvars, avars, fvars, rvars, ovars, lvars>>

pconfig == <<ntasks, psignal, pthrows>>

\* while (pending.size > 0): await the race, or leave the loop, run the
\* finally block and return
LoopTop(st, pend, setl, g, r) ==
  /\ states' = st
  /\ pending' = pend
  /\ settled' = setl
  /\ IF Len(pend) = 0
       THEN /\ ppc' = At("closed")
            /\ poutcome' = "returned"
            /\ winner' = NoWinner
            /\ pgen' = [i \in Tasks |-> IF st[i].live THEN safeReturn(g[i]) ELSE g[i]]
            /\ preturn' = [i \in Tasks |-> r[i] \/ st[i].live]
       ELSE /\ ppc' = At("await")
            /\ poutcome' = poutcome
            /\ winner' = PromiseRace(pend, setl, abortResolved)
            /\ pgen' = g
            /\ preturn' = r

AnyAborted == \E i \in Tasks : psignal[i] /\ paborted[i]

\* the short-circuit only when every task's signal is aborted
PreAborted_Every == \A i \in Tasks : psignal[i] /\ paborted[i]

\* tasks.some((t) => t.options?.abortSignal?.aborted)
PreAborted == \E i \in Tasks : psignal[i] /\ paborted[i]

\* controller.abort() on task i's signal; once the driver has registered its
\* listeners the trip resolves abortPromise.  Only the first trip is a step:
\* the driver reads the tokens through tasks.some(aborted) and through
\* abortPromise, and a second trip changes neither
ParAbort ==
  /\ poutcome = "open"
  /\ ~AnyAborted
  /\ \E i \in Tasks :
       /\ psignal[i]
       /\ paborted' = [paborted EXCEPT ![i] = TRUE]
  /\ abortResolved' = (ppc.at # "start")
  /\ winner' = IF ppc.at = "await" /\ winner.kind = "none" THEN AbortWins ELSE winner
  /\ ptrip' = [ptrip EXCEPT !.at = Len(pout), !.pc = ppc.at,
                            !.ready = \E i \in Tasks :
                                        settled[i].kind \notin {"none", "pending"}]
  /\ UNCHANGED <<pconfig, pgen, preturn, ppc, states, pending, settled, queue,
                 pproduced, pout, prunInvoked, poutcome>>
  /\ UNCHANGED nonpar

\* the number of events the adapter streams of the tasks in S have yielded
RECURSIVE Yielded(_)
Yielded(S) ==
  IF S = {} THEN 0
  ELSE LET i == CHOOSE k \in S : TRUE IN Len(pproduced[i]) + Yielded(S \ {i})

\* task i's generator settles the pull it is running with r
ParSettle(i, r) ==
  /\ poutcome = "open"
  /\ ptrip.handledAt < 0
  /\ pgen[i] = "running"
  /\ settled' = IF settled[i].kind = "pending" THEN [settled EXCEPT ![i] = r] ELSE settled
  /\ winner' = IF ppc.at = "await" /\ winner.kind = "none" /\ settled[i].kind = "pending"
                 THEN TaskWins(i) ELSE winner
  /\ UNCHANGED <<pconfig, paborted, preturn, ppc, states, pending, abortResolved,
                 queue, pout, prunInvoked, poutcome, ptrip>>
  /\ UNCHANGED nonpar

ParAdapterYield ==
  \E i \in Tasks :
    /\ Yielded(Tasks) < MaxParEvents
    /\ \E e \in ParEvents(i, Len(pproduced[i]) + 1) :
         /\ ParSettle(i, [kind |-> "value", value |-> e])
         /\ pproduced' = [pproduced EXCEPT ![i] = Append(@, e)]
    /\ pgen' = [pgen EXCEPT ![i] = IF preturn[i] THEN "completed" ELSE "idle"]

ParAdapterReturn ==
  \E i \in Tasks :
    /\ ParSettle(i, [kind |-> "exhausted"])
    /\ pgen' = [pgen EXCEPT ![i] = "completed"]
    /\ UNCHANGED pproduced

ParAdapterThrow ==
  \E i \in Tasks :
    /\ ParSettle(i, [kind |-> "threw", error |-> CHOOSE x \in Exceptions : x.isError])
    /\ pgen' = [pgen EXCEPT ![i] = "completed"]
    /\ UNCHANGED pproduced

\* first pull with no task: if (tasks.length === 0) return
ParEmpty ==
  /\ ppc.at = "start" /\ ntasks = 0
  /\ ppc' = At("closed")
  /\ poutcome' = "returned"
  /\ UNCHANGED <<pconfig, paborted, pgen, preturn, states, pending, settled,
                 abortResolved, winner, queue, pproduced, pout, prunInvoked, ptrip>>
  /\ UNCHANGED nonpar

\* first pull, some signal already aborted: the first synthesized done; the
\* rest follow one per pull, in task order
ParPreAborted ==
  /\ ppc.at = "start" /\ ntasks > 0
  /\ PreAborted
  /\ pout' = Append(pout, makeSynthDone(1, "interrupted", generateSessionId(1)))
  /\ ppc' = AtTask("y_preabort", 1)
  /\ UNCHANGED <<pconfig, paborted, pgen, preturn, states, pending, settled,
                 abortResolved, winner, queue, pproduced, prunInvoked, poutcome, ptrip>>
  /\ UNCHANGED nonpar

PullParPreAbort ==
  /\ ppc.at = "y_preabort"
  /\ IF ppc.index < ntasks
       THEN /\ pout' = Append(pout, makeSynthDone(ppc.index + 1, "interrupted",
                                                  generateSessionId(ppc.index + 1)))
            /\ ppc' = AtTask("y_preabort", ppc.index + 1)
            /\ UNCHANGED poutcome
       ELSE /\ ppc' = At("closed")
            /\ poutcome' = "returned"
            /\ UNCHANGED pout
  /\ UNCHANGED <<pconfig, paborted, pgen, preturn, states, pending, settled,
                 abortResolved, winner, queue, pproduced, prunInvoked, ptrip>>
  /\ UNCHANGED nonpar

\* first pull: tasks.map calls adapter.run() in task order and one of the
\* calls raises, outside the try block
ParRunThrows ==
  /\ ppc.at = "start" /\ ntasks > 0
  /\ ~PreAborted
  /\ \E i \in Tasks : pthrows[i]
  /\ LET first == CHOOSE i \in Tasks : pthrows[i] /\ \A k \in Tasks : pthrows[k] => i <= k IN
       /\ prunInvoked' = [i \in Tasks |-> i <= first]
       /\ pgen' = [i \in Tasks |-> IF i < first THEN "idle" ELSE "none"]
  /\ ppc' = At("closed")
  /\ poutcome' = "threw"
  /\ UNCHANGED <<pconfig, paborted, preturn, states, pending, settled,
                 abortResolved, winner, queue, pproduced, pout, ptrip>>
  /\ UNCHANGED nonpar

\* first pull: build the states, register the abort listeners, scheduleNext
\* every task and await the first race
ParStart ==
  /\ ppc.at = "start" /\ ntasks > 0
  /\ ~PreAborted
  /\ \A i \in Tasks : ~pthrows[i]
  /\ prunInvoked' = [i \in Tasks |-> TRUE]
  /\ LoopTop([i \in Tasks |-> [live |-> TRUE, sessionId |-> generateSessionId(i),
                               doneYielded |-> FALSE]],
             [i \in Tasks |-> i],
             [i \in Tasks |-> Pending],
             [i \in Tasks |-> "running"],
             preturn)
  /\ UNCHANGED <<pconfig, paborted, abortResolved, queue, pproduced, pout, ptrip>>
  /\ UNCHANGED nonpar

\* a task that is pulled again but no longer raced
scheduleNext_Drop(pend, i) == pend

\* scheduleNext(index): pending.set(index, state.gen.next().then(...))
scheduleNext(pend, i) == Append(pend, i)

\* pending.delete(index)
pendingDelete(pend, i) == SelectSeq(pend, LAMBDA k : k # i)

\* states[index] = null
Nulled(st, i) == [st EXCEPT ![i].live = FALSE]

\* the race was won by abortPromise: yieldInterruptedAndCleanup(), then the
\* first of its events is yielded (or the stream returns if there is none)
ParResumeAbort ==
  /\ ppc.at = "await" /\ winner.kind = "abort"
  /\ LET events == InterruptedEvents(states, 1)
         marked == [i \in Tasks |->
                      IF states[i].live THEN [states[i] EXCEPT !.doneYielded = TRUE]
                      ELSE states[i]]
         closing == { i \in Tasks : states[i].live /\ ~states[i].doneYielded }
     IN
       /\ ptrip' = [ptrip EXCEPT !.handledAt = Len(pout)]
       /\ states' = marked
       /\ IF events # <<>>
            THEN /\ pout' = Append(pout, Head(events))
                 /\ queue' = Tail(events)
                 /\ ppc' = At("y_interrupted")
                 /\ pgen' = [i \in Tasks |-> IF i \in closing THEN safeReturn(pgen[i]) ELSE pgen[i]]
                 /\ preturn' = [i \in Tasks |-> preturn[i] \/ i \in closing]
                 /\ UNCHANGED poutcome
            ELSE /\ ppc' = At("closed")
                 /\ poutcome' = "returned"
                 /\ pgen' = [i \in Tasks |-> IF states[i].live THEN safeReturn(pgen[i]) ELSE pgen[i]]
                 /\ preturn' = [i \in Tasks |-> preturn[i] \/ states[i].live]
                 /\ UNCHANGED <<pout, queue>>
  /\ UNCHANGED <<pconfig, paborted, pending, settled, abortResolved, winner,
                 pproduced, prunInvoked>>
  /\ UNCHANGED nonpar

\* for (const evt of yieldInterruptedAndCleanup()) yield evt; return
PullParInterrupted ==
  /\ ppc.at = "y_interrupted"
  /\ IF queue # <<>>
       THEN /\ pout' = Append(pout, Head(queue))
            /\ queue' = Tail(queue)
            /\ UNCHANGED <<ppc, poutcome, pgen, preturn>>
       ELSE /\ ppc' = At("closed")
            /\ poutcome' = "returned"
            /\ pgen' = [i \in Tasks |-> IF states[i].live THEN safeReturn(pgen[i]) ELSE pgen[i]]
            /\ preturn' = [i \in Tasks |-> preturn[i] \/ states[i].live]
            /\ UNCHANGED <<pout, queue>>
  /\ UNCHANGED <<pconfig, paborted, states, pending, settled, abortResolved,
                 winner, pproduced, prunInvoked, ptrip>>
  /\ UNCHANGED nonpar

\* the race was won by task index, whose promise carries isError
ParResumeThrew ==
  /\ ppc.at = "await" /\ winner.kind = "task"
  /\ settled[winner.index].kind = "threw"
  /\ LET index == winner.index
         state == states[index]
         pend == pendingDelete(pending, index)
         setl == [settled EXCEPT ![index] = NoPromise]
     IN
       IF ~state.doneYielded
         THEN /\ pout' = Append(pout, makeSynthError(index, "ADAPTER_ERROR",
                                        ErrText(settled[index].error), state.sessionId))
              /\ ppc' = AtTask("y_adapter_error", index)
              /\ pending' = pend
              /\ settled' = setl
              /\ UNCHANGED <<states, pgen, preturn, poutcome, winner>>
         ELSE /\ LoopTop(Nulled(states, index), pend, setl,
                         [pgen EXCEPT ![index] = safeReturn(@)],
                         [preturn EXCEPT ![index] = TRUE])
              /\ UNCHANGED pout
  /\ UNCHANGED <<pconfig, paborted, abortResolved, queue, pproduced,
                 prunInvoked, ptrip>>
  /\ UNCHANGED nonpar

\* the race was won by task index, whose generator is exhausted
ParResumeExhausted ==
  /\ ppc.at = "await" /\ winner.kind = "task"
  /\ settled[winner.index].kind = "exhausted"
  /\ LET index == winner.index
         state == states[index]
         pend == pendingDelete(pending, index)
         setl == [settled EXCEPT ![index] = NoPromise]
     IN
       IF ~state.doneYielded
         THEN /\ pout' = Append(pout, makeSynthError(index, "MISSING_DONE",
                                        MissingDoneMessage, state.sessionId))
              /\ ppc' = AtTask("y_missing_error", index)
              /\ pending' = pend
              /\ settled' = setl
              /\ UNCHANGED <<states, pgen, preturn, poutcome, winner>>
         ELSE /\ LoopTop(Nulled(states, index), pend, setl, pgen, preturn)
              /\ UNCHANGED pout
  /\ UNCHANGED <<pconfig, paborted, abortResolved, queue, pproduced,
                 prunInvoked, ptrip>>
  /\ UNCHANGED nonpar

\* the race was won by task index with an event: suppressed after that
\* task's done, else yielded as it is
ParResumeValue ==
  /\ ppc.at = "await" /\ winner.kind = "task"
  /\ settled[winner.index].kind = "value"
  /\ LET index == winner.index
         state == states[index]
         event == settled[index].value
         pend == pendingDelete(pending, index)
         setl == [settled EXCEPT ![index] = NoPromise]
     IN
       IF state.doneYielded
         THEN /\ LoopTop(states, scheduleNext(pend, index),
                         [settled EXCEPT ![index] = Pending],
                         [pgen EXCEPT ![index] = IF @ = "idle" THEN "running" ELSE @],
                         preturn)
              /\ UNCHANGED pout
         ELSE /\ states' = [states EXCEPT ![index].sessionId = event.sessionId]
              /\ pout' = Append(pout, event)
              /\ ppc' = AtTask("y_event", index)
              /\ pending' = pend
              /\ settled' = setl
              /\ UNCHANGED <<pgen, preturn, poutcome, winner>>
  /\ UNCHANGED <<pconfig, paborted, abortResolved, queue, pproduced,
                 prunInvoked, ptrip>>
  /\ UNCHANGED nonpar

\* after the synthesized error of either kind: yield makeSynthDone(.., 'error')
PullParSynthError ==
  /\ ppc.at \in {"y_adapter_error", "y_missing_error"}
  /\ pout' = Append(pout, makeSynthDone(ppc.index, "error", states[ppc.index].sessionId))
  /\ ppc' = AtTask(IF ppc.at = "y_adapter_error" THEN "y_adapter_done" ELSE "y_missing_done",
                   ppc.index)
  /\ UNCHANGED <<pconfig, paborted, pgen, preturn, states, pending, settled,
                 abortResolved, winner, queue, pproduced, prunInvoked, poutcome, ptrip>>
  /\ UNCHANGED nonpar

\* after one task's done{error} the whole merged stream ends
PullParSynthDone_StopsAll ==
  /\ ppc.at \in {"y_adapter_done", "y_missing_done"}
  /\ LET index == ppc.index
         marked == [states EXCEPT ![index].doneYielded = TRUE]
     IN
       LoopTop(Nulled(marked, index), <<>>, settled,
               [pgen EXCEPT ![index] = safeReturn(@)],
               [preturn EXCEPT ![index] = TRUE])
  /\ UNCHANGED <<pconfig, paborted, abortResolved, queue, pproduced, pout,
                 prunInvoked, ptrip>>
  /\ UNCHANGED nonpar

\* after done{error}: state.doneYielded = true; states[index] = null;
\* continue (the exception path calls safeReturn, the exhaustion path not)
PullParSynthDone ==
  /\ ppc.at \in {"y_adapter_done", "y_missing_done"}
  /\ LET index == ppc.index
         marked == [states EXCEPT ![index].doneYielded = TRUE]
     IN
       IF ppc.at = "y_adapter_done"
         THEN LoopTop(Nulled(marked, index), pending, settled,
                      [pgen EXCEPT ![index] = safeReturn(@)],
                      [preturn EXCEPT ![index] = TRUE])
         ELSE LoopTop(Nulled(marked, index), pending, settled, pgen, preturn)
  /\ UNCHANGED <<pconfig, paborted, abortResolved, queue, pproduced, pout,
                 prunInvoked, ptrip>>
  /\ UNCHANGED nonpar

\* after yield event: a done retires the task, anything else schedules its
\* next pull
PullParEvent ==
  /\ ppc.at = "y_event"
  /\ LET index == ppc.index IN
       IF IsDone(pout[Len(pout)])
         THEN LoopTop(Nulled([states EXCEPT ![index].doneYielded = TRUE], index),
                      pending, settled,
                      [pgen EXCEPT ![index] = safeReturn(@)],
                      [preturn EXCEPT ![index] = TRUE])
         ELSE LoopTop(states, scheduleNext(pending, index),
                      [settled EXCEPT ![index] =
                         IF pgen[index] = "completed" THEN [kind |-> "exhausted"] ELSE Pending],
                      [pgen EXCEPT ![index] = IF @ = "idle" THEN "running" ELSE @],
                      preturn)
  /\ UNCHANGED <<pconfig, paborted, abortResolved, queue, pproduced, pout,
                 prunInvoked, ptrip>>
  /\ UNCHANGED nonpar

ParNext ==
  \/ ParAbort
  \/ ParAdapterYield
  \/ ParAdapterReturn
  \/ ParAdapterThrow
  \/ ParEmpty
  \/ ParPreAborted
  \/ PullParPreAbort
  \/ ParRunThrows
  \/ ParStart
  \/ ParResumeAbort
  \/ PullParInterrupted
  \/ ParResumeThrew
  \/ ParResumeExhausted
  \/ ParResumeValue
  \/ PullParSynthError
  \/ PullParSynthDone
  \/ PullParEvent

(***************************************************************************)
(* The consumer closes a driver's stream early: return() on the driver's   *)
(* generator takes effect at the yield it is suspended at and runs the     *)
(* finally block that encloses that yield.                                 *)
(***************************************************************************)
\* runAgent: the yield of the pre-abort done is outside the try block; at
\* every other yield doneYielded is still false and the finally block calls
\* safeReturn(gen)
ConsumerClose ==
  /\ outcome = "open"
  /\ pc \in {"y_preabort", "y_adapter_error", "y_missing_error", "y_adapter_done",
             "y_missing_done", "y_interrupted", "y_event"}
  /\ pc' = "closed"
  /\ outcome' = "closed"
  /\ IF pc = "y_preabort"
       THEN UNCHANGED <<gen, returnCalled>>
       ELSE /\ returnCalled' = TRUE
            /\ gen' = safeReturn(gen)
  /\ UNCHANGED <<registered, hasSignal, aborted, runThrows, race, produced,
                 out, lastSessionId, doneYielded, runInvoked, trip>>
  /\ UNCHANGED nondrive

\* a close that leaves the adapter streams as they are
ParConsumerClose_NoFinally ==
  /\ poutcome = "open"
  /\ ppc.at \in {"y_preabort", "y_adapter_error", "y_missing_error",
                 "y_adapter_done", "y_missing_done", "y_interrupted", "y_event"}
  /\ ppc' = At("closed")
  /\ poutcome' = "closed"
  /\ UNCHANGED <<pgen, preturn>>
  /\ UNCHANGED <<pconfig, paborted, states, pending, settled, abortResolved,
                 winner, queue, pproduced, pout, prunInvoked, ptrip>>
  /\ UNCHANGED nonpar

\* runParallel: the yields of the pre-abort dones are outside the try block;
\* from every other yield the finally block removes the abort listeners and
\* calls safeReturn on the generator of every state that is not null
ParConsumerClose ==
  /\ poutcome = "open"
  /\ ppc.at \in {"y_preabort", "y_adapter_error", "y_missing_error",
                 "y_adapter_done", "y_missing_done", "y_interrupted", "y_event"}
  /\ ppc' = At("closed")
  /\ poutcome' = "closed"
  /\ IF ppc.at = "y_preabort"
       THEN UNCHANGED <<pgen, preturn>>
       ELSE /\ pgen' = [i \in Tasks |->
                          IF states[i].live THEN safeReturn(pgen[i]) ELSE pgen[i]]
            /\ preturn' = [i \in Tasks |-> preturn[i] \/ states[i].live]
  /\ UNCHANGED <<pconfig, paborted, states, pending, settled, abortResolved,
                 winner, queue, pproduced, pout, prunInvoked, ptrip>>
  /\ UNCHANGED nonpar

\* either driver under a consumer that may close the stream at any yield
CloseNext ==
  \/ DriveNext
  \/ ParNext
  \/ ConsumerClose
  \/ ParConsumerClose

(***************************************************************************)
(* One run of a built-in adapter (claude-code, codex, gemini, opencode):   *)
(* the backend's messages are read one at a time and translated to events. *)
(* A backend message is the part of it the translation looks at: its type, *)
(* the session id it carries (none: no id) and, for a tool message, the    *)
(* tool-use id it carries (none: no id).                                   *)
(***************************************************************************)
Adapters == {"claude-code", "codex", "gemini", "opencode"}

\* a message that carries no id
NoId == <<"none", 0>>

\* the session ids a backend message may carry
MsgSids == {NoId, <<"sid", 1>>}

\* the tool-use ids a backend message may carry
ToolIds == {NoId, <<"call", 1>>}

NoEnd == [kind |-> "none", aborted |-> FALSE, at |-> -1, exit |-> "none"]

\* the message types each backend's translation tells apart
MsgTypes(a) ==
  CASE a = "claude-code" ->
         {"system", "assistant:text", "assistant:tool_use",
          "assistant:tool_result", "result"}
    [] a = "codex" ->
         {"untyped", "item.completed:text", "item.completed:tool_use",
          "item.completed:tool_result", "turn.completed"}
    [] a = "gemini" ->
         {"unparsed", "init", "message", "tool_use", "tool_result", "result"}
    [] a = "opencode" ->
         {"message.part.updated:text", "message.part.updated:tool",
          "permission.updated", "permission.replied", "session.idle"}

\* the message types whose translation reads a tool-use id
ToolTypes ==
  {"assistant:tool_use", "assistant:tool_result",
   "item.completed:tool_use", "item.completed:tool_result",
   "tool_use", "tool_result",
   "message.part.updated:tool", "permission.updated", "permission.replied"}

Messages(a) ==
  { m \in [type : MsgTypes(a), sid : MsgSids, id : ToolIds] :
      m.id # NoId => m.type \in ToolTypes }

\* loadSessionId(message) ?? sessionId
loadSessionId(m, sid) == IF m.sid # NoId THEN m.sid ELSE sid

\* asString(x.toolUseId) ?? asString(x.id) ?? ... ?? generateSessionId():
\* the id the message carries, or a fresh one (n tells the calls apart)
toolUseId(m, n) == IF m.id # NoId THEN m.id ELSE generateSessionId(n)

\* createEvent(type, AGENT, payload, sessionId) in an adapter
AEvent(type, payload, sid) == createEvent(type, 0, payload, sid, "adapter")

InitEvent(sid) == AEvent("init", [model |-> "unknown"], sid)

ADone(status, usage, sid) == AEvent("done", [status |-> status, usage |-> usage], sid)

\* if (!initYielded) yield createEvent('init', ...)
InitIfNeeded(iy, sid) == IF iy THEN <<>> ELSE <<InitEvent(sid)>>

\* the stream is over without a done and the token is not looked at
EndOfStream_IgnoresAbort(code, sid, ab) ==
  << AEvent("error", [code |-> code, recoverable |-> FALSE], sid),
     ADone("error", ZeroUsage, sid) >>

\* the block that closes a run without a done: done{interrupted} if the
\* token is tripped, else error{code} and done{error}
EndOfStream(code, sid, ab) ==
  IF ab THEN << ADone("interrupted", ZeroUsage, sid) >>
  ELSE << AEvent("error", [code |-> code, recoverable |-> FALSE], sid),
          ADone("error", ZeroUsage, sid) >>

\* the error code of a backend stream that ends without its terminal message
MissingCode(a) ==
  CASE a = "claude-code" -> "MISSING_RESULT"
    [] a = "codex" -> "MISSING_TURN_DONE"
    [] a = "opencode" -> "MISSING_SESSION_IDLE"
    [] OTHER -> "none"

\* the error code of a backend stream that raises
StreamErrorCode(a) ==
  CASE a = "claude-code" -> "SDK_STREAM_ERROR"
    [] a = "codex" -> "SDK_STREAM_ERROR"
    [] a = "gemini" -> "GEMINI_STREAM_ERROR"
    [] a = "opencode" -> "OPENCODE_STREAM_ERROR"

\* how the gemini process may have exited when its stdout ends
GeminiExits == {"code0", "code1", "code53", "SIGTERM"}

\* the exit code alone decides, the token and SIGTERM are not looked at
mapExitCodeToDoneStatus_NoOverride(exit, ab) ==
  IF exit = "code0" THEN "success"
  ELSE IF exit = "code53" THEN "max_turns"
  ELSE "error"

\* mapExitCodeToDoneStatus(close, aborted)
mapExitCodeToDoneStatus(exit, ab) ==
  IF ab \/ exit = "SIGTERM" THEN "interrupted"
  ELSE IF exit = "code0" THEN "success"
  ELSE IF exit = "code53" THEN "max_turns"
  ELSE "error"

\* ClaudeCodeAdapter.run, one SDK message: the events it yields
ClaudeEvents(m, sid, n) ==
  CASE m.type = "system" -> << InitEvent(sid) >>
    [] m.type = "assistant:text" -> << AEvent("text", [content |-> "c"], sid) >>
    [] m.type = "assistant:tool_use" ->
         << AEvent("tool_use", [toolUseId |-> toolUseId(m, n)], sid) >>
    [] m.type = "assistant:tool_result" ->
         << AEvent("tool_result", [toolUseId |-> toolUseId(m, n)], sid) >>
    [] m.type = "result" -> << ADone("success", AdapterUsage, sid) >>

\* CodexAdapter.run, one stream event: init first if not yet yielded
CodexEvents(m, sid, n, iy) ==
  InitIfNeeded(iy, sid) \o
  CASE m.type = "untyped" -> <<>>
    [] m.type = "item.completed:text" -> << AEvent("text", [content |-> "c"], sid) >>
    [] m.type = "item.completed:tool_use" ->
         << AEvent("tool_use", [toolUseId |-> toolUseId(m, n)], sid) >>
    [] m.type = "item.completed:tool_result" ->
         << AEvent("tool_result", [toolUseId |-> toolUseId(m, n)], sid) >>
    [] m.type = "turn.completed" -> << ADone("success", AdapterUsage, sid) >>

\* GeminiAdapter.run, one NDJSON line: init first if not yet yielded, and
\* nothing but that after the done
GeminiEvents(m, sid, n, iy, dy) ==
  InitIfNeeded(iy, sid) \o
  (IF dy \/ m.type = "init" THEN <<>>
   ELSE CASE m.type = "unparsed" ->
               << AEvent("error", [code |-> "NDJSON_PARSE_ERROR", recoverable |-> TRUE], sid) >>
          [] m.type = "message" -> << AEvent("text", [content |-> "c"], sid) >>
          [] m.type = "tool_use" ->
               << AEvent("tool_use", [toolUseId |-> toolUseId(m, n)], sid) >>
          [] m.type = "tool_result" ->
               << AEvent("tool_result", [toolUseId |-> toolUseId(m, n)], sid) >>
          [] m.type = "result" -> << ADone("success", AdapterUsage, sid) >>)

\* the events of every session are translated
OpenCodeEvents_NoFilter(m, sid, n) ==
  CASE m.type = "message.part.updated:text" ->
         << AEvent("text", [content |-> "c"], sid) >>
    [] m.type = "message.part.updated:tool" ->
         << AEvent("tool_use", [toolUseId |-> toolUseId(m, n)], sid) >>
    [] m.type = "permission.updated" ->
         << AEvent("permission_request", [toolUseId |-> toolUseId(m, n)], sid) >>
    [] m.type = "permission.replied" ->
         << AEvent("tool_result", [toolUseId |-> toolUseId(m, n)], sid) >>
    [] m.type = "session.idle" -> << ADone("success", AdapterUsage, sid) >>

\* OpenCodeAdapter.run, one SSE event: events of other sessions are skipped
OpenCodeEvents(m, sid, n) ==
  IF m.sid # NoId /\ m.sid # sid THEN <<>>
  ELSE CASE m.type = "message.part.updated:text" ->
              << AEvent("text", [content |-> "c"], sid) >>
         [] m.type = "message.part.updated:tool" ->
              << AEvent("tool_use", [toolUseId |-> toolUseId(m, n)], sid) >>
         [] m.type = "permission.updated" ->
              << AEvent("permission_request", [toolUseId |-> toolUseId(m, n)], sid) >>
         [] m.type = "permission.replied" ->
              << AEvent("tool_result", [toolUseId |-> toolUseId(m, n)], sid) >>
         [] m.type = "session.idle" -> << ADone("success", AdapterUsage, sid) >>

\* the sessionId the run holds after reading m
NextSessionId(a, m, sid) ==
  IF a = "opencode" \/ m.type = "unparsed" THEN sid ELSE loadSessionId(m, sid)

\* the events the run yields for m
Translate(a, m, sid, n, iy, dy) ==
  CASE a = "claude-code" -> ClaudeEvents(m, sid, n)
    [] a = "codex" -> CodexEvents(m, sid, n, iy)
    [] a = "gemini" -> GeminiEvents(m, sid, n, iy, dy)
    [] a = "opencode" -> OpenCodeEvents(m, sid, n)

\* m makes the run yield its done and return
Terminal(a, m, sid) ==
  \/ a = "claude-code" /\ m.type = "result"
  \/ a = "codex" /\ m.type = "turn.completed"
  \/ a = "opencode" /\ m.type = "session.idle" /\ (m.sid = NoId \/ m.sid = sid)

\* the token of the run
Tripped == asignal /\ aaborted

AdapterInit ==
  /\ adapter \in Adapters
  /\ asignal \in BOOLEAN
  /\ aaborted = FALSE
  /\ apc = "start"
  /\ asessionId = generateSessionId(0)
  /\ initYielded = FALSE
  /\ adoneYielded = FALSE
  /\ amsgs = 0
  /\ aqueue = <<>>
  /\ aout = <<>>
  /\ aend = NoEnd
  /\ child = "none"
  /\ killAt = -1
  /\ override = "none"
  /\ client = "none"
  /\ aforeign = FALSE

\* child.kill('SIGTERM') when a process was spawned and has not closed:
\* where the first SIGTERM was sent
Kill(c, k) == IF c = "running" /\ k = -1 THEN Len(aout) ELSE k

\* the settings override is left where it is
Cleanup_Keeps(o) == o

\* settingsOverride.cleanup()
Cleanup(o) == IF o = "created" THEN "deleted" ELSE o

\* the positions at which onAbort is registered on the signal
ListenerOn == {"start", "stream", "awaitclose", "late", "ending", "finally"}

\* how the process a gemini run awaits may have exited; nothing to await
\* for the other adapters
ExitsOf(a) == IF a = "gemini" THEN GeminiExits ELSE {"none"}

\* onAbort without its kill
AdapterAbort_NoKill ==
  /\ asignal /\ ~aaborted
  /\ apc \notin {"closed", "failed"}
  /\ aaborted' = TRUE
  /\ UNCHANGED <<adapter, asignal, apc, asessionId, initYielded, adoneYielded,
                 amsgs, aqueue, aout, aend, child, killAt, override, client, aforeign>>
  /\ UNCHANGED <<dvars, pvars, fvars, rvars, ovars, lvars>>

\* controller.abort() on the run's signal: onAbort sets abortRequested and
\* sends SIGTERM to the process
AdapterAbort ==
  /\ asignal /\ ~aaborted
  /\ apc \notin {"closed", "failed"}
  /\ aaborted' = TRUE
  /\ killAt' = IF apc \in ListenerOn THEN Kill(child, killAt) ELSE killAt
  /\ UNCHANGED <<adapter, asignal, apc, asessionId, initYielded, adoneYielded,
                 amsgs, aqueue, aout, aend, child, override, client, aforeign>>
  /\ UNCHANGED <<dvars, pvars, fvars, rvars, ovars, lvars>>

\* the run reaches its backend stream. gemini has created its settings
\* override (the directory of a policy that needs one) and spawned the CLI; opencode has spawned its server in managed mode, connected the
\* client, taken the session id from the result of run()/query() and yields
\* init. A token tripped before the spawn makes both call onAbort() then.
AdapterOpen ==
  /\ apc = "start"
  /\ apc' = "stream"
  /\ CASE adapter = "gemini" ->
            /\ override' = "created"
            /\ child' = "running"
            /\ killAt' = IF Tripped THEN Len(aout) ELSE killAt
            /\ UNCHANGED <<asessionId, aqueue, initYielded, client>>
       [] adapter = "opencode" ->
            /\ \E r \in [sid : {NoId, <<"sid", 1>>}] :
                 /\ asessionId' = loadSessionId(r, asessionId)
                 /\ aqueue' = << InitEvent(asessionId') >>
                 /\ initYielded' = TRUE
            /\ \E mode \in {"managed", "external"} :
                 /\ child' = IF mode = "managed" THEN "running" ELSE "none"
                 /\ killAt' = IF mode = "managed" /\ Tripped THEN Len(aout) ELSE killAt
            /\ client' = "open"
            /\ UNCHANGED override
       [] OTHER ->
            UNCHANGED <<asessionId, aqueue, initYielded, child, killAt, override, client>>
  /\ UNCHANGED <<adapter, asignal, aaborted, adoneYielded, amsgs, aout, aend, aforeign>>
  /\ UNCHANGED <<dvars, pvars, fvars, rvars, ovars, lvars>>

\* the consumer pulls: the next event of the current step is yielded; after
\* the last event of the closing step the run is suspended at its last yield
AdapterEmit ==
  /\ aqueue # <<>>
  /\ aout' = Append(aout, Head(aqueue))
  /\ aqueue' = Tail(aqueue)
  /\ apc' = IF apc = "ending" /\ Tail(aqueue) = <<>> THEN "finally" ELSE apc
  /\ UNCHANGED <<adapter, asignal, aaborted, asessionId, initYielded,
                 adoneYielded, amsgs, aend, child, killAt, override, client, aforeign>>
  /\ UNCHANGED <<dvars, pvars, fvars, rvars, ovars, lvars>>

\* the body of the read loop for one backend message
BackendMessage ==
  /\ apc = "stream" /\ aqueue = <<>>
  /\ amsgs < MaxMsgs
  /\ \E m \in Messages(adapter) :
       LET sid == NextSessionId(adapter, m, asessionId)
           events == Translate(adapter, m, sid, amsgs + 1, initYielded, adoneYielded)
           last == Terminal(adapter, m, sid)
       IN
         /\ asessionId' = sid
         /\ aqueue' = events
         /\ initYielded' = (initYielded \/ adapter \in {"codex", "gemini"})
         /\ adoneYielded' = (adoneYielded \/ \E k \in 1..Len(events) : events[k].type = "done")
         /\ apc' = IF last THEN (IF events = <<>> THEN "finally" ELSE "ending") ELSE "stream"
         /\ aend' = IF last THEN [kind |-> "terminal", aborted |-> Tripped,
                                  at |-> Len(aout), exit |-> "none"]
                    ELSE aend
         /\ aforeign' = (adapter = "opencode" /\ m.sid # NoId /\ m.sid # asessionId)
  /\ amsgs' = amsgs + 1
  /\ UNCHANGED <<adapter, asignal, aaborted, aout, child, killAt, override, client>>
  /\ UNCHANGED <<dvars, pvars, fvars, rvars, ovars, lvars>>

\* what the run yields to close, once init is out of the way: ab is the
\* token as the code reads it at that point, exit how the gemini process
\* exited
Rest(a, kind, exit, sid, ab, dy) ==
  IF dy THEN <<>>
  ELSE CASE kind = "end" /\ a = "gemini" ->
              << ADone(mapExitCodeToDoneStatus(exit, ab), ZeroUsage, sid) >>
         [] kind = "end" /\ a # "gemini" -> EndOfStream(MissingCode(a), sid, ab)
         [] kind = "throw" -> EndOfStream(StreamErrorCode(a), sid, ab)
         [] kind = "server_exit" -> EndOfStream("OPENCODE_SERVER_EXIT", sid, ab)

\* the step that closes the run with the events evs
Closing(kind, exit, evs) ==
  /\ aqueue' = evs
  /\ apc' = IF evs = <<>> THEN "finally" ELSE "ending"
  /\ adoneYielded' = TRUE
  /\ aend' = [kind |-> kind, aborted |-> Tripped, at |-> Len(aout), exit |-> exit]
  /\ UNCHANGED <<adapter, asignal, aaborted, asessionId, initYielded, amsgs, aout,
                 aforeign>>
  /\ UNCHANGED <<dvars, pvars, fvars, rvars, ovars, lvars>>

\* if (!initYielded) { yield init; initYielded = true }: the run is
\* suspended at that yield before it looks at the token
LateInit(kind) ==
  /\ aqueue' = << InitEvent(asessionId) >>
  /\ apc' = "late"
  /\ initYielded' = TRUE
  /\ aend' = [kind |-> kind, aborted |-> Tripped, at |-> Len(aout), exit |-> "none"]
  /\ UNCHANGED <<adapter, asignal, aaborted, asessionId, adoneYielded, amsgs, aout,
                 aforeign>>
  /\ UNCHANGED <<dvars, pvars, fvars, rvars, ovars, lvars>>

\* the adapters that yield a missing init when the stream is over
YieldsLateInit(a, kind) ==
  \/ kind = "end" /\ a \in {"codex", "gemini"}
  \/ kind = "throw" /\ a \in {"codex", "gemini", "opencode"}

\* the code after the read loop
AfterLoop ==
  /\ IF YieldsLateInit(adapter, "end") /\ ~initYielded
       THEN LateInit("end")
       ELSE \E exit \in ExitsOf(adapter) :
              Closing("end", exit,
                      Rest(adapter, "end", exit, asessionId, Tripped, adoneYielded))
  /\ UNCHANGED <<child, killAt, override, client>>

\* the backend stream ends; gemini then waits for the close of its process
\* (const close = await closePromise)
BackendEnd ==
  /\ apc = "stream" /\ aqueue = <<>>
  /\ IF adapter = "gemini" /\ child # "closed"
       THEN /\ apc' = "awaitclose"
            /\ UNCHANGED <<adapter, asignal, aaborted, asessionId, initYielded,
                           adoneYielded, amsgs, aqueue, aout, aend,
                           child, killAt, override, client, aforeign>>
            /\ UNCHANGED <<dvars, pvars, fvars, rvars, ovars, lvars>>
       ELSE AfterLoop

\* closePromise resolves for the waiting gemini run
ClosePromiseSettled ==
  /\ apc = "awaitclose"
  /\ child = "closed"
  /\ AfterLoop

\* the backend stream raises, or the start of the backend does (gemini: the
\* settings override or the spawn; opencode: the readiness wait of a spawned
\* server, or run()/query()): the catch clause
BackendThrow ==
  /\ aqueue = <<>>
  /\ \/ /\ apc = "stream"
        /\ UNCHANGED <<child, killAt, override, client>>
     \/ /\ apc = "start" /\ adapter = "gemini"
        /\ override' \in {"none", "created"}
        /\ UNCHANGED <<child, killAt, client>>
     \/ /\ apc = "start" /\ adapter = "opencode"
        /\ child' \in {"none", "running"}
        /\ UNCHANGED <<killAt, override, client>>
  /\ IF YieldsLateInit(adapter, "throw") /\ ~initYielded
       THEN LateInit("throw")
       ELSE Closing("throw", "none",
                    Rest(adapter, "throw", "none", asessionId, Tripped, adoneYielded))

\* the exit of the server is always reported as an error
ServerExit_IgnoresAbort ==
  /\ adapter = "opencode"
  /\ child = "closed"
  /\ apc = "stream" /\ aqueue = <<>>
  /\ Closing("server_exit", "none",
             Rest(adapter, "server_exit", "none", asessionId, FALSE, adoneYielded))
  /\ UNCHANGED <<child, killAt, override, client>>

\* opencode in managed mode: the race of the next event with the exit of the
\* server is won by the exit
ServerExit ==
  /\ adapter = "opencode"
  /\ child = "closed"
  /\ apc = "stream" /\ aqueue = <<>>
  /\ Closing("server_exit", "none",
             Rest(adapter, "server_exit", "none", asessionId, Tripped, adoneYielded))
  /\ UNCHANGED <<child, killAt, override, client>>

\* the run is resumed after its late init: if (!doneYielded) { ... } with
\* the token as it is now
AfterLateInit ==
  /\ apc = "late" /\ aqueue = <<>>
  /\ \E exit \in ExitsOf(IF aend.kind = "end" THEN adapter ELSE "none") :
       /\ aqueue' = Rest(adapter, aend.kind, exit, asessionId, Tripped, adoneYielded)
       /\ aend' = [aend EXCEPT !.aborted = Tripped, !.exit = exit]
  /\ apc' = "ending"
  /\ adoneYielded' = TRUE
  /\ UNCHANGED <<adapter, asignal, aaborted, asessionId, initYielded, amsgs, aout,
                 child, killAt, override, client, aforeign>>
  /\ UNCHANGED <<dvars, pvars, fvars, rvars, ovars, lvars>>

\* the spawned process closes: processExited / serverClosed become true
ChildClose ==
  /\ child = "running"
  /\ apc \notin {"closed", "failed"}
  /\ child' = "closed"
  /\ UNCHANGED <<adapter, asignal, aaborted, apc, asessionId, initYielded,
                 adoneYielded, amsgs, aqueue, aout, aend, killAt, override, client,
                 aforeign>>
  /\ UNCHANGED <<dvars, pvars, fvars, rvars, ovars, lvars>>

\* the consumer closes the stream early: return() takes effect at the yield
\* the run is suspended at, and what the step was still to yield is dropped
ConsumerReturn ==
  /\ apc \in {"stream", "late", "ending"}
  /\ aout # <<>>
  /\ aqueue' = <<>>
  /\ apc' = "finally"
  /\ aend' = [kind |-> "return", aborted |-> Tripped, at |-> Len(aout), exit |-> "none"]
  /\ UNCHANGED <<adapter, asignal, aaborted, asessionId, initYielded, adoneYielded,
                 amsgs, aout, child, killAt, override, client, aforeign>>
  /\ UNCHANGED <<dvars, pvars, fvars, rvars, ovars, lvars>>

\* claude-code and codex leave their for await loop by a return after the
\* done: the loop closes the backend stream (await iterator.return()), the
\* close raises inside the try block and the catch clause runs, which does
\* not look at doneYielded
StreamCloseThrows ==
  /\ adapter \in {"claude-code", "codex"}
  /\ apc = "finally" /\ aend.kind = "terminal"
  /\ aqueue' = EndOfStream(StreamErrorCode(adapter), asessionId, Tripped)
  /\ apc' = "ending"
  /\ aend' = [kind |-> "close_throw", aborted |-> Tripped, at |-> Len(aout),
              exit |-> "none"]
  /\ UNCHANGED <<adapter, asignal, aaborted, asessionId, initYielded, adoneYielded,
                 amsgs, aout, child, killAt, override, client, aforeign>>
  /\ UNCHANGED <<dvars, pvars, fvars, rvars, ovars, lvars>>

\* the finally clause, up to its wait for the close of the process.
\* gemini: kill the process if it has not closed and await closePromise,
\* else clean the settings override up. opencode: close the client (the
\* rejection of close() leaves the clause), kill the server if it has not
\* closed and wait for its close or 1500 ms. claude-code and codex hold no
\* process.
Finally ==
  /\ apc = "finally"
  /\ CASE adapter = "gemini" ->
            /\ killAt' = Kill(child, killAt)
            /\ apc' = IF child = "running" THEN "finwait" ELSE "closed"
            /\ override' = IF child = "running" THEN override ELSE Cleanup(override)
            /\ UNCHANGED client
       [] adapter = "opencode" ->
            \E rejected \in (IF client = "open" THEN BOOLEAN ELSE {FALSE}) :
              IF rejected
                THEN /\ client' = "failed"
                     /\ apc' = "failed"
                     /\ UNCHANGED <<killAt, override>>
                ELSE /\ client' = IF client = "open" THEN "closed" ELSE client
                     /\ killAt' = Kill(child, killAt)
                     /\ apc' = IF child = "running" THEN "finwait" ELSE "closed"
                     /\ UNCHANGED override
       [] OTHER ->
            /\ apc' = "closed"
            /\ UNCHANGED <<killAt, override, client>>
  /\ UNCHANGED <<adapter, asignal, aaborted, asessionId, initYielded, adoneYielded,
                 amsgs, aqueue, aout, aend, child, aforeign>>
  /\ UNCHANGED <<dvars, pvars, fvars, rvars, ovars, lvars>>

\* the process closes while the finally clause waits for it
FinallyResume ==
  /\ apc = "finwait"
  /\ child = "closed"
  /\ apc' = "closed"
  /\ override' = Cleanup(override)
  /\ UNCHANGED <<adapter, asignal, aaborted, asessionId, initYielded, adoneYielded,
                 amsgs, aqueue, aout, aend, child, killAt, client, aforeign>>
  /\ UNCHANGED <<dvars, pvars, fvars, rvars, ovars, lvars>>

\* opencode: setTimeout(resolve, 1500) wins the race of the finally clause
CloseTimeout ==
  /\ apc = "finwait"
  /\ adapter = "opencode"
  /\ apc' = "closed"
  /\ UNCHANGED <<adapter, asignal, aaborted, asessionId, initYielded, adoneYielded,
                 amsgs, aqueue, aout, aend, child, killAt, override, client, aforeign>>
  /\ UNCHANGED <<dvars, pvars, fvars, rvars, ovars, lvars>>

AdapterNext ==
  \/ AdapterAbort
  \/ AdapterOpen
  \/ AdapterEmit
  \/ BackendMessage
  \/ BackendEnd
  \/ ClosePromiseSettled
  \/ BackendThrow
  \/ ServerExit
  \/ AfterLateInit
  \/ ChildClose
  \/ ConsumerReturn
  \/ StreamCloseThrows
  \/ Finally
  \/ FinallyResume
  \/ CloseTimeout

(***************************************************************************)
(* The line framer (parseNDJSON).  The input is a sequence of bytes cut     *)
(* into chunks.  A byte is a digit, a double quote, one of the two bytes of *)
(* a two-byte UTF-8 character, a line feed or a carriage return; a decoded  *)
(* character is a byte of the first four kinds, "E" for the two-byte        *)
(* character or "?" for U+FFFD.                                             *)
(***************************************************************************)
Bytes == {"1", "q", "L", "T", "n", "r"}

\* the inputs of at most MaxBytes bytes
Inputs == UNION { [1..k -> Bytes] : k \in 0..MaxBytes }

\* Buffer.toString('utf8') of one chunk: the lead byte followed by the
\* trail byte is the character, a lead byte or a trail byte alone is U+FFFD
RECURSIVE chunkToString(_)
chunkToString(chunk) ==
  IF chunk = <<>> THEN <<>>
  ELSE IF Head(chunk) = "L" /\ Len(chunk) >= 2 /\ chunk[2] = "T"
    THEN <<"E">> \o chunkToString(SubSeq(chunk, 3, Len(chunk)))
  ELSE IF Head(chunk) \in {"L", "T"}
    THEN <<"?">> \o chunkToString(Tail(chunk))
  ELSE <<Head(chunk)>> \o chunkToString(Tail(chunk))

\* the white space of String.prototype.trim and of JSON
WhiteSpace == {"n", "r"}

RECURSIVE TrimStart(_)
TrimStart(s) ==
  IF s # <<>> /\ Head(s) \in WhiteSpace THEN TrimStart(Tail(s)) ELSE s

RECURSIVE TrimEnd(_)
TrimEnd(s) ==
  IF s # <<>> /\ s[Len(s)] \in WhiteSpace THEN TrimEnd(SubSeq(s, 1, Len(s) - 1)) ELSE s

trim(s) == TrimEnd(TrimStart(s))

\* JSON.parse on this alphabet: within white space, a number (digits) or a
\* string (two quotes around characters that are neither a quote nor a
\* control character); anything else raises
JSONparse(line) ==
  LET t == trim(line) IN
    IF t # <<>> /\ \A k \in 1..Len(t) : t[k] = "1"
      THEN [ok |-> TRUE, data |-> <<"number", t>>]
    ELSE IF /\ Len(t) >= 2 /\ t[1] = "q" /\ t[Len(t)] = "q"
            /\ \A k \in 2..(Len(t) - 1) : t[k] \notin {"q", "n", "r"}
      THEN [ok |-> TRUE, data |-> <<"string", SubSeq(t, 2, Len(t) - 1)>>]
    ELSE [ok |-> FALSE, data |-> <<"none", <<>>>>]

\* the line is parsed with its trailing carriage return
parseLine_NoStrip(rawLine) ==
  IF trim(rawLine) = <<>> THEN <<>>
  ELSE LET p == JSONparse(rawLine) IN
         IF p.ok THEN << [ok |-> TRUE, data |-> p.data, raw |-> <<>>] >>
         ELSE << [ok |-> FALSE, data |-> p.data, raw |-> rawLine] >>

\* parseLine: no result (undefined) for a blank line, else one result
parseLine(rawLine) ==
  LET line == IF rawLine # <<>> /\ rawLine[Len(rawLine)] = "r"
                THEN SubSeq(rawLine, 1, Len(rawLine) - 1) ELSE rawLine
  IN IF trim(line) = <<>> THEN <<>>
     ELSE LET p == JSONparse(line) IN
            IF p.ok THEN << [ok |-> TRUE, data |-> p.data, raw |-> <<>>] >>
            ELSE << [ok |-> FALSE, data |-> p.data, raw |-> line] >>

\* buffer.indexOf('\n'), 0 for -1
indexOf(buffer) ==
  IF \E i \in 1..Len(buffer) : buffer[i] = "n"
    THEN CHOOSE i \in 1..Len(buffer) :
           buffer[i] = "n" /\ \A j \in 1..(i - 1) : buffer[j] # "n"
    ELSE 0

\* the while loop of parseNDJSON: the results of the complete lines of the
\* buffer and what is left of the buffer
RECURSIVE Drain(_)
Drain(buffer) ==
  LET newlineIndex == indexOf(buffer) IN
    IF newlineIndex = 0 THEN [results |-> <<>>, buffer |-> buffer]
    ELSE LET rest == Drain(SubSeq(buffer, newlineIndex + 1, Len(buffer))) IN
           [results |-> parseLine(SubSeq(buffer, 1, newlineIndex - 1)) \o rest.results,
            buffer |-> rest.buffer]

\* where the chunk that starts after position pos ends
ChunkEnd(pos) ==
  LET ends == {c \in fcuts : c > pos} \cup {Len(finput)} IN
    CHOOSE e \in ends : \A f \in ends : e <= f

FramerInit ==
  /\ finput \in Inputs
  /\ fcuts \in SUBSET (1..(Len(finput) - 1))
  /\ fpos = 0
  /\ fbuffer = <<>>
  /\ ftext = <<>>
  /\ fresults = <<>>
  /\ fpc = "read"

\* the body of the for await loop for one chunk
FramerChunk ==
  /\ fpc = "read"
  /\ fpos < Len(finput)
  /\ LET end == ChunkEnd(fpos)
         decoded == chunkToString(SubSeq(finput, fpos + 1, end))
         d == Drain(fbuffer \o decoded)
     IN /\ fpos' = end
        /\ ftext' = ftext \o decoded
        /\ fbuffer' = d.buffer
        /\ fresults' = fresults \o d.results
  /\ UNCHANGED <<finput, fcuts, fpc>>
  /\ UNCHANGED <<dvars, pvars, avars, rvars, ovars, lvars>>

\* the stream is over: the residual of the buffer is parsed as a last line
FramerEnd ==
  /\ fpc = "read"
  /\ fpos = Len(finput)
  /\ fresults' = fresults \o (IF Len(fbuffer) > 0 THEN parseLine(fbuffer) ELSE <<>>)
  /\ fpc' = "done"
  /\ UNCHANGED <<finput, fcuts, fpos, fbuffer, ftext>>
  /\ UNCHANGED <<dvars, pvars, avars, rvars, ovars, lvars>>

FramerNext ==
  \/ FramerChunk
  \/ FramerEnd

(***************************************************************************)
(* AdapterRegistry: a Map from agent name to adapter.  A JavaScript Map    *)
(* keeps its entries in insertion order; it is the sequence of its         *)
(* <<key, value>> entries.                                                 *)
(***************************************************************************)
AgentTypes == {"claude-code", "codex", "gemini"}

\* the adapter objects handed to register
Instances == {1, 2}

\* what Map.get returns for a missing key
Undefined == 0

NoCall ==
  [op |-> "none", agent |-> "none", threw |-> FALSE, ret |-> FALSE,
   names |-> <<>>, found |-> Undefined, before |-> <<>>]

MapHas(m, k) == \E i \in 1..Len(m) : m[i][1] = k

\* a Map that puts a new key in front of the others
MapSet_Front(m, k, v) == <<(<<k, v>>)>> \o m

\* Map.set: the value of an existing key is replaced in place, a new key
\* goes to the end
MapSet(m, k, v) ==
  IF MapHas(m, k)
  THEN [i \in 1..Len(m) |-> IF m[i][1] = k THEN <<k, v>> ELSE m[i]]
  ELSE Append(m, <<k, v>>)

MapGet(m, k) ==
  IF MapHas(m, k)
  THEN LET i == CHOOSE j \in 1..Len(m) : m[j][1] = k IN m[i][2]
  ELSE Undefined

RECURSIVE MapDelete(_, _)
MapDelete(m, k) ==
  IF m = <<>> THEN <<>>
  ELSE IF Head(m)[1] = k THEN Tail(m)
  ELSE <<Head(m)>> \o MapDelete(Tail(m), k)

MapKeys(m) == [i \in 1..Len(m) |-> m[i][1]]

RegistryInit ==
  /\ regAdapters = <<>>
  /\ regCall = NoCall
  /\ regCount = 0
  /\ regStamp = [a \in AgentTypes |-> 0]

\* register(adapter): throws when the name is taken, else sets the entry
Register(a, inst) ==
  /\ regCount < MaxOps
  /\ regCount' = regCount + 1
  /\ IF MapHas(regAdapters, a)
     THEN /\ regCall' = [NoCall EXCEPT !.op = "register", !.agent = a,
                                       !.threw = TRUE, !.before = regAdapters]
          /\ UNCHANGED <<regAdapters, regStamp>>
     ELSE /\ regAdapters' = MapSet(regAdapters, a, inst)
          /\ regCall' = [NoCall EXCEPT !.op = "register", !.agent = a,
                                       !.before = regAdapters]
          /\ regStamp' = [regStamp EXCEPT ![a] = regCount + 1]
  /\ UNCHANGED <<dvars, pvars, avars, fvars, ovars, lvars>>

\* get(agent)
Get(a) ==
  /\ regCount < MaxOps
  /\ regCount' = regCount + 1
  /\ regCall' = [NoCall EXCEPT !.op = "get", !.agent = a,
                               !.found = MapGet(regAdapters, a),
                               !.before = regAdapters]
  /\ UNCHANGED <<regAdapters, regStamp>>
  /\ UNCHANGED <<dvars, pvars, avars, fvars, ovars, lvars>>

\* list()
List ==
  /\ regCount < MaxOps
  /\ regCount' = regCount + 1
  /\ regCall' = [NoCall EXCEPT !.op = "list", !.names = MapKeys(regAdapters),
                               !.before = regAdapters]
  /\ UNCHANGED <<regAdapters, regStamp>>
  /\ UNCHANGED <<dvars, pvars, avars, fvars, ovars, lvars>>

\* unregister(agent): Map.delete tells whether the key was there
Unregister(a) ==
  /\ regCount < MaxOps
  /\ regCount' = regCount + 1
  /\ regAdapters' = MapDelete(regAdapters, a)
  /\ regCall' = [NoCall EXCEPT !.op = "unregister", !.agent = a,
                               !.ret = MapHas(regAdapters, a),
                               !.before = regAdapters]
  /\ regStamp' = [regStamp EXCEPT ![a] = 0]
  /\ UNCHANGED <<dvars, pvars, avars, fvars, ovars, lvars>>

RegistryNext ==
  \/ \E a \in AgentTypes, inst \in Instances : Register(a, inst)
  \/ \E a \in AgentTypes : Get(a)
  \/ List
  \/ \E a \in AgentTypes : Unregister(a)

(***************************************************************************)
(* The mappings from agent options to the backends' controls.  A name      *)
(* that the code scans or sorts is the sequence of its characters; an      *)
(* optional value is a sequence of at most one value.                      *)
(***************************************************************************)
\* the characters in use, in the order of their UTF-16 code units
CodeUnits ==
  <<" ", "(", ")", "-", "0", "1", "2", "3", "4", "5", "6", "7",
    "8", "9", "A", "B", "C", "D", "E", "F", "G", "H", "I", "J",
    "K", "L", "M", "N", "O", "P", "Q", "R", "S", "T", "U", "V",
    "W", "X", "Y", "Z", "_", "a", "b", "c", "d", "e", "f", "g",
    "h", "i", "j", "k", "l", "m", "n", "o", "p", "q", "r", "s",
    "t", "u", "v", "w", "x", "y", "z">>

Code(c) == CHOOSE i \in 1..Len(CodeUnits) : CodeUnits[i] = c

Letters == {CodeUnits[i] : i \in 15..40} \cup {CodeUnits[i] : i \in 42..67}

Digits == {CodeUnits[i] : i \in 5..14}

\* the string of a sequence of characters
RECURSIVE Str(_)
Str(cs) == IF cs = <<>> THEN "" ELSE Head(cs) \o Str(Tail(cs))

\* a < b on strings: by code units, a proper prefix first
RECURSIVE Less(_, _)
Less(a, b) ==
  IF b = <<>> THEN FALSE
  ELSE IF a = <<>> THEN TRUE
  ELSE IF Head(a) = Head(b) THEN Less(Tail(a), Tail(b))
  ELSE Code(Head(a)) < Code(Head(b))

\* [...set].sort()
RECURSIVE Sort(_)
Sort(S) ==
  IF S = {} THEN <<>>
  ELSE LET m == CHOOSE x \in S : \A y \in S \ {x} : Less(x, y)
       IN <<m>> \o Sort(S \ {m})

\* array.join(',')
RECURSIVE Join(_)
Join(a) ==
  IF a = <<>> THEN ""
  ELSE IF Len(a) = 1 THEN Str(a[1])
  ELSE Str(a[1]) \o "," \o Join(Tail(a))

\* String(n) of a non-negative integer
RECURSIVE String(_)
String(n) ==
  IF n < 10 THEN CodeUnits[5 + n]
  ELSE String(n \div 10) \o CodeUnits[5 + (n % 10)]

Levels == {"allow", "ask", "deny"}

Absent == "absent"

\* a PermissionPolicy, each field optional, or no policy at all
Policies ==
  [present : {TRUE}, fileWrite : Levels \cup {Absent},
   shellExecute : Levels \cup {Absent}, networkAccess : Levels \cup {Absent}]
  \cup
  [present : {FALSE}, fileWrite : {Absent}, shellExecute : {Absent},
   networkAccess : {Absent}]

NoPolicy ==
  [present |-> FALSE, fileWrite |-> Absent, shellExecute |-> Absent,
   networkAccess |-> Absent]

\* value ?? 'ask'
normalizePermissionLevel(value) == IF value = Absent THEN "ask" ELSE value

\* policy?.field is undefined when there is no policy
normalizePermissions(policy) ==
  [fileWrite |-> normalizePermissionLevel(policy.fileWrite),
   shellExecute |-> normalizePermissionLevel(policy.shellExecute),
   networkAccess |-> normalizePermissionLevel(policy.networkAccess)]

\* every deny, networkAccess included, closes the sandbox
mapPermissionsToCodexOptions_AnyDeny(policy) ==
  LET normalized == normalizePermissions(policy)
      anyDeny == \E c \in DOMAIN normalized : normalized[c] = "deny"
      allAllow == \A c \in DOMAIN normalized : normalized[c] = "allow"
      anyAsk == \E c \in DOMAIN normalized : normalized[c] = "ask"
  IN [fn |-> "codex",
      sandboxMode |->
        IF anyDeny THEN "read-only"
        ELSE IF normalized.fileWrite = "allow" /\ normalized.shellExecute = "allow"
        THEN "danger-full-access"
        ELSE "workspace-write",
      approvalPolicy |->
        IF allAllow THEN "never" ELSE IF anyAsk THEN "untrusted" ELSE "on-request",
      networkAccessEnabled |-> normalized.networkAccess = "allow"]

mapPermissionsToCodexOptions(policy) ==
  LET normalized == normalizePermissions(policy)
      allAllow ==
        /\ normalized.fileWrite = "allow"
        /\ normalized.shellExecute = "allow"
        /\ normalized.networkAccess = "allow"
      anyAsk ==
        \/ normalized.fileWrite = "ask"
        \/ normalized.shellExecute = "ask"
        \/ normalized.networkAccess = "ask"
  IN [fn |-> "codex",
      sandboxMode |->
        IF normalized.fileWrite = "deny" \/ normalized.shellExecute = "deny"
        THEN "read-only"
        ELSE IF normalized.fileWrite = "allow" /\ normalized.shellExecute = "allow"
        THEN "danger-full-access"
        ELSE "workspace-write",
      approvalPolicy |->
        IF allAllow THEN "never" ELSE IF anyAsk THEN "untrusted" ELSE "on-request",
      networkAccessEnabled |-> normalized.networkAccess = "allow"]

\* ---- Claude Code ----
\* a missing toolName or name of a tool context
NoName == <<"absent">>

WriteName == <<"W", "r", "i", "t", "e">>
EditName == <<"E", "d", "i", "t">>
MultiEditName == <<"M", "u", "l", "t", "i", "E", "d", "i", "t">>
NotebookEditName == <<"N", "o", "t", "e", "b", "o", "o", "k", "E", "d", "i", "t">>
BashName == <<"B", "a", "s", "h">>
WebFetchName == <<"W", "e", "b", "F", "e", "t", "c", "h">>

\* the names a tool context may carry
ToolNames ==
  { WriteName, EditName, MultiEditName, NotebookEditName, BashName,
    WebFetchName, <<"W", "r", "i", "t", "e", "C", "o", "n", "f", "i", "g">>,
    <<"R", "e", "a", "d">>, <<" ", "B", "a", "s", "h">>,
    <<"B", "a", "s", "h", "(", "l", "s", ")">>, <<"1", "B", "a", "s", "h">>,
    <<"W", "e", "b", "_", "F", "e", "t", "c", "h">>, <<>> }

ToolContexts ==
  [toolName : ToolNames \cup {NoName}, name : {NoName}]
  \cup [toolName : {NoName, <<>>}, name : ToolNames]

NoTool == [toolName |-> NoName, name |-> NoName]

ToolSpace == {" "}

RECURSIVE ToolTrimStart(_)
ToolTrimStart(s) ==
  IF s # <<>> /\ Head(s) \in ToolSpace THEN ToolTrimStart(Tail(s)) ELSE s

RECURSIVE ToolTrimEnd(_)
ToolTrimEnd(s) ==
  IF s # <<>> /\ s[Len(s)] \in ToolSpace
  THEN ToolTrimEnd(SubSeq(s, 1, Len(s) - 1)) ELSE s

\* the longest prefix of identifier characters
RECURSIVE IdentTail(_)
IdentTail(s) ==
  IF s # <<>> /\ Head(s) \in Letters \cup Digits \cup {"_"}
  THEN <<Head(s)>> \o IdentTail(Tail(s))
  ELSE <<>>

\* toolName.trim().match(/^[A-Za-z][A-Za-z0-9_]*/)?.[0]; <<>> for no match
Identifier(toolName) ==
  LET t == ToolTrimEnd(ToolTrimStart(toolName))
  IN IF t # <<>> /\ Head(t) \in Letters THEN <<Head(t)>> \o IdentTail(Tail(t))
     ELSE <<>>

\* the ClaudeCapability of a tool name, "none" for undefined
identifyCapability(toolName) ==
  IF toolName = NoName \/ toolName = <<>> THEN "none"
  ELSE LET identifier == Identifier(toolName)
       IN IF identifier = <<>> THEN "none"
          ELSE IF identifier \in {WriteName, EditName, MultiEditName, NotebookEditName}
          THEN "fileWrite"
          ELSE IF identifier = BashName THEN "shellExecute"
          ELSE IF identifier = WebFetchName THEN "networkAccess"
          ELSE "none"

\* the callback of the default mode: "true" | "false" | "undefined"
canUseTool(normalized, tool) ==
  LET capability ==
        identifyCapability(IF tool.toolName # NoName THEN tool.toolName
                           ELSE tool.name)
  IN IF capability = "none" THEN "undefined"
     ELSE IF normalized[capability] = "allow" THEN "true"
     ELSE IF normalized[capability] = "deny" THEN "false"
     ELSE "undefined"

\* a mapping without the accept-edits mode
mapPermissionsToClaudeOptions_NoAcceptEdits(policy) ==
  LET normalized == normalizePermissions(policy)
      allAllow == \A c \in DOMAIN normalized : normalized[c] = "allow"
  IN IF allAllow
     THEN [fn |-> "claude", permissionMode |-> "bypassPermissions",
           allowDangerouslySkipPermissions |-> TRUE, callback |-> FALSE,
           normalized |-> normalized]
     ELSE [fn |-> "claude", permissionMode |-> "default",
           allowDangerouslySkipPermissions |-> FALSE, callback |-> TRUE,
           normalized |-> normalized]

\* callback: the options carry canUseTool, closed over normalized
mapPermissionsToClaudeOptions(policy) ==
  LET normalized == normalizePermissions(policy)
      allAllow == \A c \in DOMAIN normalized : normalized[c] = "allow"
  IN IF allAllow
     THEN [fn |-> "claude", permissionMode |-> "bypassPermissions",
           allowDangerouslySkipPermissions |-> TRUE, callback |-> FALSE,
           normalized |-> normalized]
     ELSE IF /\ normalized.fileWrite = "allow"
             /\ normalized.shellExecute = "ask"
             /\ normalized.networkAccess = "ask"
     THEN [fn |-> "claude", permissionMode |-> "acceptEdits",
           allowDangerouslySkipPermissions |-> FALSE, callback |-> FALSE,
           normalized |-> normalized]
     ELSE [fn |-> "claude", permissionMode |-> "default",
           allowDangerouslySkipPermissions |-> FALSE, callback |-> TRUE,
           normalized |-> normalized]

\* ---- Gemini ----
EditTool == <<"e", "d", "i", "t">>
ShellTool == <<"S", "h", "e", "l", "l", "T", "o", "o", "l">>
WebfetchTool == <<"w", "e", "b", "f", "e", "t", "c", "h">>
CustomTool == <<"c", "u", "s", "t", "o", "m", "-", "t", "o", "o", "l">>
NeverTool == <<"n", "e", "v", "e", "r", "-", "t", "o", "o", "l">>

CAPABILITY_TOOL_GROUPS ==
  [fileWrite |-> {EditTool}, shellExecute |-> {ShellTool},
   networkAccess |-> {WebfetchTool}]

\* the arrays of at most MaxTools names a caller may pass
ToolLists(names) == UNION { [1..k -> names] : k \in 0..MaxTools }

SetOf(a) == {a[i] : i \in 1..Len(a)}

\* a mapping that leaves a denied tool in the allow-set
mapPermissionsToGeminiToolConfig_NoOverride(policy, allowedTools, disallowedTools) ==
  LET normalized == normalizePermissions(policy)
      allowed ==
        SetOf(allowedTools) \cup
        UNION {CAPABILITY_TOOL_GROUPS[c] :
                 c \in {k \in DOMAIN normalized : normalized[k] = "allow"}}
      disallowed ==
        SetOf(disallowedTools) \cup
        UNION {CAPABILITY_TOOL_GROUPS[c] :
                 c \in {k \in DOMAIN normalized : normalized[k] = "deny"}}
  IN [fn |-> "geminiTools",
      allowedTools |-> Sort(allowed),
      disallowedTools |-> Sort(disallowed),
      args |-> IF allowed # {}
               THEN <<"--allowed-tools", Join(Sort(allowed))>> ELSE <<>>]

mapPermissionsToGeminiToolConfig(policy, allowedTools, disallowedTools) ==
  LET normalized == normalizePermissions(policy)
      allowed0 ==
        SetOf(allowedTools) \cup
        UNION {CAPABILITY_TOOL_GROUPS[c] :
                 c \in {k \in DOMAIN normalized : normalized[k] = "allow"}}
      disallowed ==
        SetOf(disallowedTools) \cup
        UNION {CAPABILITY_TOOL_GROUPS[c] :
                 c \in {k \in DOMAIN normalized : normalized[k] = "deny"}}
      allowed == IF allowed0 # {} THEN allowed0 \ disallowed ELSE allowed0
      allowedSorted == Sort(allowed)
  IN [fn |-> "geminiTools",
      allowedTools |-> allowedSorted,
      disallowedTools |-> Sort(disallowed),
      args |-> IF Len(allowedSorted) > 0
               THEN <<"--allowed-tools", Join(allowedSorted)>> ELSE <<>>]

\* the agent options the command is built from
NoOptions ==
  [present |-> FALSE, permissions |-> NoPolicy, model |-> <<>>,
   maxTurns |-> <<>>, allowedTools |-> <<>>, disallowedTools |-> <<>>]

Models == {<<>>, <<"">>, <<"gemini-2.5-pro">>}

MaxTurnsValues == {<<>>, <<0>>, <<7>>, <<12>>}

Prompts == {"", "build this"}

\* a command that passes every model that is not undefined
mapAgentOptionsToGeminiCommand_AnyModel(prompt, options) ==
  LET toolConfig ==
        mapPermissionsToGeminiToolConfig(options.permissions,
                                         options.allowedTools,
                                         options.disallowedTools)
  IN [fn |-> "geminiCommand", command |-> "gemini",
      args |-> <<"--output-format", "stream-json", "--prompt", prompt>>
               \o (IF options.model # <<>>
                   THEN <<"--model", options.model[1]>> ELSE <<>>)
               \o (IF options.maxTurns # <<>>
                   THEN <<"--max-session-turns", String(options.maxTurns[1])>>
                   ELSE <<>>)
               \o toolConfig.args,
      toolConfig |-> toolConfig]

mapAgentOptionsToGeminiCommand(prompt, options) ==
  LET toolConfig ==
        mapPermissionsToGeminiToolConfig(options.permissions,
                                         options.allowedTools,
                                         options.disallowedTools)
  IN [fn |-> "geminiCommand", command |-> "gemini",
      args |-> <<"--output-format", "stream-json", "--prompt", prompt>>
               \o (IF options.model # <<>> /\ options.model[1] # ""
                   THEN <<"--model", options.model[1]>> ELSE <<>>)
               \o (IF options.maxTurns # <<>>
                   THEN <<"--max-session-turns", String(options.maxTurns[1])>>
                   ELSE <<>>)
               \o toolConfig.args,
      toolConfig |-> toolConfig]

NoResult == [fn |-> "none"]

\* the inputs of one call of one of the mappings
OptionsInit ==
  /\ optResult = NoResult
  /\ \/ /\ optFn = "codex"
        /\ optPolicy \in Policies
        /\ optTool = NoTool
        /\ optOptions = NoOptions
        /\ optPrompt = ""
     \/ /\ optFn = "claude"
        /\ optPolicy \in Policies
        /\ optTool \in ToolContexts
        /\ optOptions = NoOptions
        /\ optPrompt = ""
     \/ /\ optFn = "geminiTools"
        /\ optPolicy \in Policies
        /\ optTool = NoTool
        /\ optOptions \in
             [present : {TRUE}, permissions : {NoPolicy}, model : {<<>>},
              maxTurns : {<<>>},
              allowedTools : ToolLists({EditTool, CustomTool}),
              disallowedTools : ToolLists({EditTool, NeverTool})]
        /\ optPrompt = ""
     \/ /\ optFn = "geminiCommand"
        /\ optPolicy = NoPolicy
        /\ optTool = NoTool
        /\ optOptions \in
             [present : {TRUE}, permissions : Policies, model : Models,
              maxTurns : MaxTurnsValues,
              allowedTools : ToolLists({EditTool, CustomTool}),
              disallowedTools : ToolLists({NeverTool})]
             \cup {NoOptions}
        /\ optPrompt \in Prompts

MapCodex ==
  /\ optFn = "codex"
  /\ optResult = NoResult
  /\ optResult' = mapPermissionsToCodexOptions(optPolicy)
  /\ UNCHANGED <<optFn, optPolicy, optTool, optOptions, optPrompt>>
  /\ UNCHANGED <<dvars, pvars, avars, fvars, rvars, lvars>>

\* the mapping, then the SDK asks the callback, if there is one, about a tool
MapClaude ==
  /\ optFn = "claude"
  /\ optResult = NoResult
  /\ LET mapped == mapPermissionsToClaudeOptions(optPolicy)
     IN optResult' =
          [fn |-> "claude", permissionMode |-> mapped.permissionMode,
           allowDangerouslySkipPermissions |-> mapped.allowDangerouslySkipPermissions,
           callback |-> mapped.callback,
           verdict |-> IF mapped.callback
                       THEN canUseTool(mapped.normalized, optTool)
                       ELSE "uncalled"]
  /\ UNCHANGED <<optFn, optPolicy, optTool, optOptions, optPrompt>>
  /\ UNCHANGED <<dvars, pvars, avars, fvars, rvars, lvars>>

MapGeminiTools ==
  /\ optFn = "geminiTools"
  /\ optResult = NoResult
  /\ optResult' = mapPermissionsToGeminiToolConfig(optPolicy,
                                                   optOptions.allowedTools,
                                                   optOptions.disallowedTools)
  /\ UNCHANGED <<optFn, optPolicy, optTool, optOptions, optPrompt>>
  /\ UNCHANGED <<dvars, pvars, avars, fvars, rvars, lvars>>

MapGeminiCommand ==
  /\ optFn = "geminiCommand"
  /\ optResult = NoResult
  /\ optResult' = mapAgentOptionsToGeminiCommand(optPrompt, optOptions)
  /\ UNCHANGED <<optFn, optPolicy, optTool, optOptions, optPrompt>>
  /\ UNCHANGED <<dvars, pvars, avars, fvars, rvars, lvars>>

OptionsNext ==
  \/ MapCodex
  \/ MapClaude
  \/ MapGeminiTools
  \/ MapGeminiCommand

(***************************************************************************)
(* The abort listener of one run of a built-in adapter.  Every adapter     *)
(* registers onAbort on options.abortSignal with { once: true } when the   *)
(* signal is present and not aborted: claude-code and codex inside their   *)
(* option mapping, which returns cleanupAbort, gemini and opencode in run  *)
(* just before the try block.                                              *)
(***************************************************************************)
\* what the Codex SDK object offers: everything, no resumeThread, a thread
\* whose runStreamed/run result is not an async iterable, or a call that
\* throws
CodexSdks == {"full", "no_resumeThread", "no_stream", "throws"}

\* options.abortSignal.addEventListener('abort', onAbort, { once: true })
\* behind its guard
addEventListener(signal) == signal = "live"

ListenerInit ==
  /\ ladapter \in Adapters
  /\ labortSignal \in {"none", "live", "aborted"}
  /\ lresume \in BOOLEAN
  /\ lsdk \in (IF ladapter = "codex" THEN CodexSdks ELSE {"full"})
  /\ lpc = "start"
  /\ lonAbort = FALSE
  /\ lpulls = 0

\* controller.abort(): a listener registered with once is removed as it is
\* dispatched
ListenerAbort ==
  /\ lpc # "off"
  /\ labortSignal = "live"
  /\ labortSignal' = "aborted"
  /\ lonAbort' = FALSE
  /\ UNCHANGED <<ladapter, lresume, lsdk, lpc, lpulls>>
  /\ UNCHANGED <<dvars, pvars, avars, fvars, rvars, ovars>>

\* await this.loadSdk() of claude-code, codex and opencode: a rejection is
\* rethrown as an Error before anything else is done
RunLoadSdk ==
  /\ lpc = "start"
  /\ ladapter # "gemini"
  /\ lpc' \in {"loaded", "failed"}
  /\ UNCHANGED <<ladapter, labortSignal, lresume, lsdk, lonAbort, lpulls>>
  /\ UNCHANGED <<dvars, pvars, avars, fvars, rvars, ovars>>

\* the registration: mapAgentOptionsToClaudeQueryOptions and
\* mapAgentOptionsToCodexOptions called from run, or run itself (gemini,
\* opencode).  claude-code, gemini and opencode enter their try block next,
\* codex builds its thread first.
RunRegister ==
  /\ \/ lpc = "loaded"
     \/ lpc = "start" /\ ladapter = "gemini"
  /\ lonAbort' = addEventListener(labortSignal)
  /\ lpc' = IF ladapter = "codex" THEN "mapped" ELSE "try"
  /\ UNCHANGED <<ladapter, labortSignal, lresume, lsdk, lpulls>>
  /\ UNCHANGED <<dvars, pvars, avars, fvars, rvars, ovars>>

\* CodexAdapter.run between the mapping and the try block: new sdk.Codex(),
\* resumeThread or startThread, runStreamed or run, isAsyncIterable.  Each
\* throw leaves run with the finally clause never entered.
CodexThread ==
  /\ lpc = "mapped"
  /\ lpc' = IF \/ lresume /\ lsdk = "no_resumeThread"
               \/ lsdk \in {"no_stream", "throws"}
              THEN "failed"
              ELSE "try"
  /\ UNCHANGED <<ladapter, labortSignal, lresume, lsdk, lonAbort, lpulls>>
  /\ UNCHANGED <<dvars, pvars, avars, fvars, rvars, ovars>>

\* run yields an event and is suspended there
RunYield ==
  /\ lpc = "try"
  /\ lpulls < MaxMsgs
  /\ lpulls' = lpulls + 1
  /\ lpc' = "yield"
  /\ UNCHANGED <<ladapter, labortSignal, lresume, lsdk, lonAbort>>
  /\ UNCHANGED <<dvars, pvars, avars, fvars, rvars, ovars>>

\* the consumer pulls again, or closes the stream at the yield
RunResume ==
  /\ lpc = "yield"
  /\ lpc' \in {"try", "finally"}
  /\ UNCHANGED <<ladapter, labortSignal, lresume, lsdk, lonAbort, lpulls>>
  /\ UNCHANGED <<dvars, pvars, avars, fvars, rvars, ovars>>

\* the try block is left: return after done, the end of the backend stream,
\* or the end of the catch clause
RunLeaveTry ==
  /\ lpc = "try"
  /\ lpc' = "finally"
  /\ UNCHANGED <<ladapter, labortSignal, lresume, lsdk, lonAbort, lpulls>>
  /\ UNCHANGED <<dvars, pvars, avars, fvars, rvars, ovars>>

\* the finally clause: cleanupAbort() of claude-code and codex, the guarded
\* removeEventListener of gemini and opencode
RunFinally ==
  /\ lpc = "finally"
  /\ lonAbort' = IF ladapter \in {"claude-code", "codex"}
                   THEN FALSE
                   ELSE IF labortSignal = "live" THEN FALSE ELSE lonAbort
  /\ lpc' = "closed"
  /\ UNCHANGED <<ladapter, labortSignal, lresume, lsdk, lpulls>>
  /\ UNCHANGED <<dvars, pvars, avars, fvars, rvars, ovars>>

ListenerNext ==
  \/ ListenerAbort
  \/ RunLoadSdk
  \/ RunRegister
  \/ CodexThread
  \/ RunYield
  \/ RunResume
  \/ RunLeaveTry
  \/ RunFinally

(***************************************************************************)
(* Specifications.  A driver that is not the one under study is off.       *)
(***************************************************************************)
DriveOff ==
  /\ registered = FALSE
  /\ hasSignal = FALSE
  /\ runThrows = FALSE
  /\ aborted = FALSE
  /\ pc = "off"
  /\ gen = "none"
  /\ returnCalled = FALSE
  /\ race = Pending
  /\ produced = <<>>
  /\ out = <<>>
  /\ lastSessionId = Null
  /\ doneYielded = FALSE
  /\ runInvoked = FALSE
  /\ outcome = "off"
  /\ trip = NoTrip

ParOff ==
  /\ ntasks = 0
  /\ psignal = <<>>
  /\ pthrows = <<>>
  /\ paborted = <<>>
  /\ pgen = <<>>
  /\ preturn = <<>>
  /\ ppc = At("off")
  /\ states = <<>>
  /\ pending = <<>>
  /\ settled = <<>>
  /\ abortResolved = FALSE
  /\ winner = NoWinner
  /\ queue = <<>>
  /\ pproduced = <<>>
  /\ pout = <<>>
  /\ prunInvoked = <<>>
  /\ poutcome = "off"
  /\ ptrip = NoParTrip

\* no adapter run is under study
AdapterOff ==
  /\ adapter = "off"
  /\ asignal = FALSE
  /\ aaborted = FALSE
  /\ apc = "off"
  /\ asessionId = Null
  /\ initYielded = FALSE
  /\ adoneYielded = FALSE
  /\ amsgs = 0
  /\ aqueue = <<>>
  /\ aout = <<>>
  /\ aend = NoEnd
  /\ child = "none"
  /\ killAt = -1
  /\ override = "none"
  /\ client = "none"
  /\ aforeign = FALSE

\* no framing is under study
FramerOff ==
  /\ finput = <<>>
  /\ fcuts = {}
  /\ fpos = 0
  /\ fbuffer = <<>>
  /\ ftext = <<>>
  /\ fresults = <<>>
  /\ fpc = "off"

\* no registry is under study
RegistryOff ==
  /\ regAdapters = <<>>
  /\ regCall = NoCall
  /\ regCount = 0
  /\ regStamp = <<>>

\* no mapping is under study
OptionsOff ==
  /\ optFn = "off"
  /\ optPolicy = NoPolicy
  /\ optTool = NoTool
  /\ optOptions = NoOptions
  /\ optPrompt = ""
  /\ optResult = NoResult

\* no run is followed
ListenerOff ==
  /\ ladapter = "off"
  /\ labortSignal = "none"
  /\ lresume = FALSE
  /\ lsdk = "full"
  /\ lpc = "off"
  /\ lonAbort = FALSE
  /\ lpulls = 0

InitDrive ==
  DriveInit /\ ParOff /\ AdapterOff /\ FramerOff /\ RegistryOff /\ OptionsOff /\ ListenerOff

InitPar ==
  ParInit /\ DriveOff /\ AdapterOff /\ FramerOff /\ RegistryOff /\ OptionsOff /\ ListenerOff

InitAdapter ==
  AdapterInit /\ DriveOff /\ ParOff /\ FramerOff /\ RegistryOff /\ OptionsOff /\ ListenerOff

InitFramer ==
  FramerInit /\ DriveOff /\ ParOff /\ AdapterOff /\ RegistryOff /\ OptionsOff /\ ListenerOff

InitRegistry ==
  RegistryInit /\ DriveOff /\ ParOff /\ AdapterOff /\ FramerOff /\ OptionsOff /\ ListenerOff

InitOptions ==
  OptionsInit /\ DriveOff /\ ParOff /\ AdapterOff /\ FramerOff /\ RegistryOff /\ ListenerOff

InitListener ==
  /\ ListenerInit /\ DriveOff /\ ParOff /\ AdapterOff /\ FramerOff
  /\ RegistryOff /\ OptionsOff

Init == InitDrive \/ InitPar

Next == DriveNext \/ ParNext

\* the steps of the single-session driver and of its consumer, which the
\* runtime and a consumer that keeps pulling always take
DriveSteps ==
  \/ DriveUnknown \/ DrivePreAborted \/ DriveRunThrows \/ DriveStart
  \/ ResumeThrew \/ ResumeAborted \/ ResumeExhausted \/ ResumeValue
  \/ PullPreAbort \/ PullSynthError \/ PullSynthDone \/ PullEvent

\* runAgent under every adapter, token and consumer
SpecDrive == InitDrive /\ [][DriveNext]_vars

\* runAgent with a consumer that keeps pulling; the adapter and the token
\* holder are free never to act
FairSpecDrive == SpecDrive /\ WF_vars(DriveSteps)

\* runParallel under every adapter, token and consumer
SpecPar == InitPar /\ [][ParNext]_vars

\* the steps of the parallel driver and of its consumer, which the runtime
\* and a consumer that keeps pulling always take
ParSteps ==
  \/ ParEmpty \/ ParPreAborted \/ PullParPreAbort \/ ParRunThrows \/ ParStart
  \/ ParResumeAbort \/ PullParInterrupted \/ ParResumeThrew
  \/ ParResumeExhausted \/ ParResumeValue \/ PullParSynthError
  \/ PullParSynthDone \/ PullParEvent

\* runParallel with a consumer that keeps pulling; every adapter and the
\* token holder are free never to act
FairSpecPar == SpecPar /\ WF_vars(ParSteps)

\* one run of a built-in adapter under every backend, token and consumer
SpecAdapter == InitAdapter /\ [][AdapterNext]_vars

\* the steps the run takes by itself once they are enabled: the consumer
\* pulls, settled promises and timers resume the run. The close of the
\* process and the messages of the backend are not among them.
AdapterSteps ==
  \/ AdapterEmit
  \/ ClosePromiseSettled
  \/ AfterLateInit
  \/ Finally
  \/ FinallyResume
  \/ CloseTimeout

\* one run of a built-in adapter whose own steps are eventually taken
FairSpecAdapter == SpecAdapter /\ WF_vars(AdapterSteps)

\* parseNDJSON over every input of at most MaxBytes bytes and every way to
\* cut it into chunks
SpecFramer == InitFramer /\ [][FramerNext]_vars

\* one AdapterRegistry under every sequence of at most MaxOps calls
SpecRegistry == InitRegistry /\ [][RegistryNext]_vars

\* one call of one of the option mappings under every argument
SpecOptions == InitOptions /\ [][OptionsNext]_vars

\* either driver under a consumer that pulls or closes the stream early
SpecClose == Init /\ [][CloseNext]_vars

\* the abort listener over one run of each built-in adapter
SpecListener == InitListener /\ [][ListenerNext]_vars

\* either driver
Spec == Init /\ [][Next]_vars

(***************************************************************************)
(* Properties of the single-session driver                                 *)
(***************************************************************************)
\* the positions of the events of type done in a stream
DoneIdx(s) == { i \in 1..Len(s) : s[i].type = "done" }

InterruptedDone(e) ==
  /\ e.type = "done"
  /\ e.payload.status = "interrupted"

ZeroedUsage(e) ==
  /\ e.payload.usage.inputTokens = 0
  /\ e.payload.usage.outputTokens = 0
  /\ e.payload.usage.toolUses = 0

\* the stream was consumed to its end
FullyConsumed == outcome = "returned"

\* C1: a fully consumed runAgent stream holds exactly one done, whatever the
\* adapter's stream did and whenever the token tripped (and no stream, at any
\* point, holds more than one)
C1_ExactlyOneDone ==
  /\ Cardinality(DoneIdx(out)) <= 1
  /\ FullyConsumed => Cardinality(DoneIdx(out)) = 1

\* C1 witness: a consumed stream whose adapter yielded two events, then its
\* own done, with the token tripped along the way
C1_Witness ==
  /\ FullyConsumed
  /\ aborted
  /\ Len(produced) = 3
  /\ produced[3].type = "done"
  /\ Cardinality(DoneIdx(out)) = 1

\* C4: with the token already tripped when runAgent starts, the stream is one
\* done{interrupted} with zeroed usage, and adapter.run() is never called
C4_PreAborted ==
  (registered /\ trip.pc = "start" /\ pc # "start") =>
     /\ Len(out) = 1
     /\ InterruptedDone(out[1])
     /\ ZeroedUsage(out[1])
     /\ ~runInvoked

\* C4 witness: the pre-aborted stream, consumed to its end
C4_Witness ==
  /\ registered /\ trip.pc = "start"
  /\ FullyConsumed
  /\ Len(out) = 1

\* the token tripped while the stream was open and no done had been yielded
TrippedBeforeDone == trip.at >= 0 /\ ~trip.done

\* the event that follows the trip is done{interrupted} and ends the stream
InterruptedNext ==
  Len(out) > trip.at =>
     /\ InterruptedDone(out[trip.at + 1])
     /\ Len(out) = trip.at + 1

FailureObserved ==
  \/ trip.pc \in {"y_adapter_error", "y_missing_error"}
  \/ trip.pc = "await" /\ trip.race = "threw"

C8_AdapterDoneWins ==
  (pc # "await" /\ race.kind = "value" /\ race.value.type = "done") =>
     /\ out[Len(out)] = race.value
     /\ DoneIdx(out) = {Len(out)}

\* C9: with the token never tripped, an adapter stream that yields e1..ek,
\* none a done, and then completes gives e1..ek, error{MISSING_DONE,
\* recoverable false}, done{error}
C9_MissingDone ==
  (FullyConsumed /\ ~aborted /\ race.kind = "exhausted") =>
     LET k == Len(produced) IN
       /\ Len(out) = k + 2
       /\ SubSeq(out, 1, k) = produced
       /\ out[k + 1].type = "error"
       /\ out[k + 1].payload.code = "MISSING_DONE"
       /\ out[k + 1].payload.recoverable = FALSE
       /\ out[k + 2].type = "done"
       /\ out[k + 2].payload.status = "error"

\* C9 witness: two events, then exhaustion
C9_Witness ==
  /\ FullyConsumed /\ ~aborted /\ race.kind = "exhausted"
  /\ Len(produced) = 2
  /\ Len(out) = 4

\* C10: with the token never tripped, an adapter stream that yields e1..ek,
\* none a done, and then raises gives e1..ek, error{ADAPTER_ERROR, message =
\* the exception text, recoverable false}, done{error}
C10_AdapterError ==
  (FullyConsumed /\ ~aborted /\ race.kind = "threw") =>
     LET k == Len(produced) IN
       /\ Len(out) = k + 2
       /\ SubSeq(out, 1, k) = produced
       /\ out[k + 1].type = "error"
       /\ out[k + 1].payload.code = "ADAPTER_ERROR"
       /\ out[k + 1].payload.message =
            (IF race.error.isError THEN race.error.message ELSE race.error.string)
       /\ out[k + 1].payload.recoverable = FALSE
       /\ out[k + 2].type = "done"
       /\ out[k + 2].payload.status = "error"

\* C10 witness: two events, then an Error is thrown
C10_Witness ==
  /\ FullyConsumed /\ ~aborted /\ race.kind = "threw"
  /\ race.error.isError
  /\ Len(produced) = 2
  /\ Len(out) = 4

(***************************************************************************)
(* Properties of the parallel driver                                       *)
(***************************************************************************)
\* the positions of task i's done events in the merged stream s
TaskDones(s, i) == { k \in DoneIdx(s) : s[k].task = i }

\* C2: nothing is delivered after a session's done: the done of a runAgent
\* stream is its last event, and in a runParallel stream no event of a task
\* follows that task's done
C2_NothingAfterDone ==
  /\ \A k \in DoneIdx(out) : k = Len(out)
  /\ \A j, k \in 1..Len(pout) :
       (j < k /\ pout[j].task = pout[k].task) => pout[j].type # "done"

\* C2 witness: a consumed runParallel stream in which one task's own done was
\* followed by the other task's events only
C2_Witness ==
  /\ poutcome = "returned"
  /\ Len(pout) >= 3
  /\ pout[1].type = "done" /\ pout[1].origin = "adapter"
  /\ \A k \in 2..Len(pout) : pout[k].task # pout[1].task

\* C3: a fully consumed runParallel stream over N tasks holds exactly N done
\* events, one of each task (and no stream holds two of one task)
C3_OneDonePerTask ==
  /\ \A i \in Tasks : Cardinality(TaskDones(pout, i)) <= 1
  /\ poutcome = "returned" =>
       /\ \A i \in Tasks : Cardinality(TaskDones(pout, i)) = 1
       /\ Cardinality(DoneIdx(pout)) = ntasks

\* C3 witness: two tasks, a token tripped on the way, one done the adapter's
\* own and one synthesized
C3_Witness ==
  /\ poutcome = "returned"
  /\ ntasks = 2
  /\ ptrip.at >= 0
  /\ \E j, k \in DoneIdx(pout) : pout[j].origin = "adapter" /\ pout[k].origin = "driver"

\* C5: with some task's token already tripped when runParallel starts, no
\* adapter.run() is called and the stream is one synthesized
\* done{interrupted} per task, in task order, and nothing else
C5_GlobalPreAbort ==
  (ptrip.pc = "start" /\ ppc.at # "start") =>
     /\ \A i \in Tasks : ~prunInvoked[i]
     /\ poutcome # "threw"
     /\ Len(pout) <= ntasks
     /\ poutcome = "returned" => Len(pout) = ntasks
     /\ \A k \in 1..Len(pout) :
          /\ pout[k].task = k
          /\ pout[k].origin = "driver"
          /\ InterruptedDone(pout[k])

\* C5 witness: two tasks, only one of them with a token, tripped before the
\* start; the stream was consumed to its end
C5_Witness ==
  /\ ptrip.pc = "start"
  /\ poutcome = "returned"
  /\ ntasks = 2
  /\ \E i \in Tasks : ~psignal[i]
  /\ Len(pout) = 2

\* a task's current session id after the events in s: that of the last event
\* delivered for it, or the id the driver seeded
CurrentSid(s, i) ==
  LET mine == { k \in 1..Len(s) : s[k].task = i } IN
    IF mine = {} THEN <<"uuid", i>>
    ELSE s[CHOOSE k \in mine : \A m \in mine : m <= k].sessionId

\* the done{interrupted} events owed on cancellation after the events in s:
\* one per task without a done in s, in task order
RECURSIVE Owed(_, _)
Owed(s, i) ==
  IF i > ntasks THEN <<>>
  ELSE (IF TaskDones(s, i) = {}
          THEN << [type |-> "done", task |-> i, sessionId |-> CurrentSid(s, i),
                   origin |-> "driver",
                   payload |-> [status |-> "interrupted", usage |-> ZeroUsage]] >>
          ELSE <<>>) \o Owed(s, i + 1)

\* C7: when runParallel handles the trip of any task's token, every task
\* without a delivered done gets exactly one synthesized done{interrupted}
\* carrying its current session id, the other tasks get nothing more, and
\* the merged stream ends
C7_GlobalCancel ==
  ptrip.handledAt >= 0 =>
     LET h == ptrip.handledAt
         owed == Owed(SubSeq(pout, 1, h), 1)
         tail == SubSeq(pout, h + 1, Len(pout))
     IN
       /\ Len(tail) <= Len(owed)
       /\ tail = SubSeq(owed, 1, Len(tail))
       /\ poutcome = "returned" => tail = owed

\* C7 witness: at the trip one task had its done delivered and the other an
\* adapter event; the stream ended with the second task's done{interrupted}
C7_Witness ==
  /\ ptrip.handledAt = 2
  /\ poutcome = "returned"
  /\ ntasks = 2
  /\ \E j, k \in 1..2 :
       /\ pout[j].type = "done" /\ pout[k].type = "text"
       /\ pout[j].task # pout[k].task
  /\ Len(pout) = 3

\* the events of task i in the merged stream s, in their order
TaskProj(s, i) == SelectSeq(s, LAMBDA e : e.task = i)

\* e is a driver-built error of the kind that precedes done{error}
SynthError(e) ==
  /\ e.type = "error"
  /\ e.origin = "driver"
  /\ e.payload.code \in {"ADAPTER_ERROR", "MISSING_DONE"}
  /\ e.payload.recoverable = FALSE

\* e is a driver-built done{error}
SynthDoneError(e) ==
  /\ e.type = "done"
  /\ e.origin = "driver"
  /\ e.payload.status = "error"

\* C11: in runParallel a task whose adapter raises or exhausts without a done
\* gets its synthesized error directly followed by done{error}, and with no
\* token tripped every task of a consumed stream received all the events its
\* adapter yielded, in order, ended by its own done or by that pair,
\* whatever happened to the other tasks
C11_ErrorIsolation ==
  /\ \A k \in 1..Len(pout) :
       (pout[k].type = "error" /\ pout[k].origin = "driver") =>
          /\ SynthError(pout[k])
          /\ k < Len(pout) =>
               /\ SynthDoneError(pout[k + 1])
               /\ pout[k + 1].task = pout[k].task
          /\ k = Len(pout) =>
               ppc = AtTask(IF pout[k].payload.code = "ADAPTER_ERROR"
                              THEN "y_adapter_error" ELSE "y_missing_error",
                            pout[k].task)
  /\ (poutcome = "returned" /\ ptrip.at < 0) =>
       \A j \in Tasks :
         LET proj == TaskProj(pout, j)
             k == Len(pproduced[j])
         IN
           /\ Len(proj) >= k
           /\ SubSeq(proj, 1, k) = pproduced[j]
           /\ IF k > 0 /\ pproduced[j][k].type = "done"
                THEN Len(proj) = k
                ELSE /\ Len(proj) = k + 2
                     /\ SynthError(proj[k + 1])
                     /\ SynthDoneError(proj[k + 2])

\* C11 witness: task 1 failed at its first pull; after its error and
\* done{error} task 2's event and task 2's own done were delivered
C11_Witness ==
  /\ poutcome = "returned" /\ ptrip.at < 0
  /\ ntasks = 2
  /\ Len(pout) = 4
  /\ pout[1].type = "error" /\ pout[1].task = 1
  /\ pout[2].type = "done" /\ pout[2].task = 1
  /\ pout[3].type = "text" /\ pout[3].task = 2
  /\ pout[4].type = "done" /\ pout[4].task = 2 /\ pout[4].origin = "adapter"

(***************************************************************************)
(* Properties of both drivers                                              *)
(***************************************************************************)
\* C12 as stated: no exception raised by an adapter leaves runAgent or
\* runParallel: a stream of a registered adapter never ends by throwing
C12_NoPropagation ==
  /\ registered => outcome # "threw"
  /\ poutcome # "threw"

\* the delivered events o of one session are the first events its adapter
\* yielded (p), as they were yielded, followed by nothing but driver-built
\* error and done events
Refines(o, p) ==
  LET n == Cardinality({ m \in 1..Len(o) : o[m].origin = "adapter" }) IN
    /\ n <= Len(p)
    /\ \A m \in 1..Len(o) :
         IF m <= n THEN o[m] = p[m]
         ELSE o[m].origin = "driver" /\ o[m].type \in {"error", "done"}

\* C13: what a driver delivers for a session is a prefix of what the
\* session's adapter yielded, in order and unaltered, followed only by
\* driver-synthesized error and done events
C13_PrefixOfAdapter ==
  /\ Refines(out, produced)
  /\ \A j \in Tasks : Refines(TaskProj(pout, j), pproduced[j])

\* C13 witness: the adapter yielded three events, two were delivered and the
\* synthesized done{interrupted} closed the consumed stream
C13_Witness ==
  /\ FullyConsumed
  /\ Len(produced) = 3
  /\ Len(out) = 3
  /\ out[1] = produced[1] /\ out[2] = produced[2]
  /\ out[3].origin = "driver"

\* C14 as stated: whatever the adapter does, all events of a runAgent stream
\* carry one and the same session id
C14_SessionConsistency ==
  \A i, j \in 1..Len(out) : out[i].sessionId = out[j].sessionId

\* the session id the driver holds for task i before position k of stream s:
\* that of the last adapter event delivered for the task, or the seeded one
AdoptedSid(s, k, i) ==
  LET mine == { m \in 1..(k - 1) : s[m].task = i /\ s[m].origin = "adapter" } IN
    IF mine = {} THEN <<"uuid", i>>
    ELSE s[CHOOSE m \in mine : \A n \in mine : n <= m].sessionId

\* C15: every driver-synthesized event (error or done) carries the session
\* id of the most recent adapter event delivered for its session, or the id
\* the driver seeded if none was delivered
C15_SynthSid ==
  /\ \A k \in 1..Len(out) :
       out[k].origin = "driver" => out[k].sessionId = AdoptedSid(out, k, 0)
  /\ \A k \in 1..Len(pout) :
       pout[k].origin = "driver" =>
          pout[k].sessionId = AdoptedSid(pout, k, pout[k].task)

\* C15 witness: two adapter events with different ids, then the synthesized
\* error and done, both with the second id
C15_Witness ==
  /\ Len(out) = 4
  /\ out[1].origin = "adapter" /\ out[2].origin = "adapter"
  /\ out[1].sessionId # out[2].sessionId
  /\ out[3].origin = "driver" /\ out[3].type = "error"
  /\ out[4].origin = "driver" /\ out[4].sessionId = out[2].sessionId

\* C17 as stated: for an agent name that is not registered runAgent has
\* failed by the time the call is over: a stream that is still open, waiting
\* for its first pull, exists only for registered agents
C17_FailsAtCall ==
  (pc # "off" /\ ~registered) =>
     /\ outcome = "threw"
     /\ out = <<>>
     /\ ~runInvoked

(***************************************************************************)
(* Properties of the built-in adapters                                     *)
(***************************************************************************)
\* C16 as stated: every tool_result of a session stream is preceded by a
\* tool_use with the same tool-use id
C16_ToolCorrelation ==
  \A k \in 1..Len(aout) :
    aout[k].type = "tool_result" =>
       \E j \in 1..(k - 1) :
         /\ aout[j].type = "tool_use"
         /\ aout[j].payload.toolUseId = aout[k].payload.toolUseId

\* C18 as stated: a run yields init at most once, and before every other
\* event: an init is the first event of the run
C18_InitOnceFirst ==
  \A k \in 1..Len(aout) : aout[k].type = "init" => k = 1

\* C19 as stated: all events of one run carry the same session id, whatever
\* ids the backend's messages carry
C19_StableSid ==
  \A i, j \in 1..Len(aout) : aout[i].sessionId = aout[j].sessionId

\* what a closed run yielded from the end of the backend stream on, the
\* late init of a run that had yielded nothing left out
AfterEnd ==
  SelectSeq(SubSeq(aout, aend.at + 1, Len(aout)), LAMBDA e : e.type # "init")

\* C20: when the backend stream of claude-code, codex or opencode ends
\* without its terminal message, the run closes with error{MISSING_RESULT /
\* MISSING_TURN_DONE / MISSING_SESSION_IDLE, recoverable false} and
\* done{error} if the token is not tripped, and with done{interrupted}
\* alone if it is
C20_MissingTerminal ==
  (adapter \in {"claude-code", "codex", "opencode"} /\ aend.kind = "end" /\ apc = "closed") =>
     IF aend.aborted
       THEN /\ Len(AfterEnd) = 1
            /\ AfterEnd[1].type = "done"
            /\ AfterEnd[1].payload.status = "interrupted"
       ELSE /\ Len(AfterEnd) = 2
            /\ AfterEnd[1].type = "error"
            /\ AfterEnd[1].payload.code =
                 (CASE adapter = "claude-code" -> "MISSING_RESULT"
                    [] adapter = "codex" -> "MISSING_TURN_DONE"
                    [] adapter = "opencode" -> "MISSING_SESSION_IDLE")
            /\ AfterEnd[1].payload.recoverable = FALSE
            /\ AfterEnd[2].type = "done"
            /\ AfterEnd[2].payload.status = "error"

\* C20 witness: an opencode run that had yielded a text, whose stream ended
\* without session.idle after the token had tripped
C20_Witness ==
  /\ adapter = "opencode"
  /\ aend.kind = "end" /\ aend.aborted
  /\ apc = "closed"
  /\ \E k \in 1..Len(aout) : aout[k].type = "text"
  /\ aout[Len(aout)].type = "done"


\* the run has yielded everything its closing step had to yield
Drained == apc \in {"finally", "finwait", "closed"}

\* a done was yielded before the backend stream was over
DoneBeforeEnd == \E k \in 1..aend.at : aout[k].type = "done"

\* C21: when the output of the gemini process is over, the run yields a done
\* for the exit of the process only if it has yielded none yet; its status is
\* interrupted if the token is tripped or the process died of SIGTERM, else
\* success for exit code 0, max_turns for 53 and error for the others
C21_ExitDone ==
  (adapter = "gemini" /\ aend.kind = "end" /\ Drained) =>
     IF DoneBeforeEnd
       THEN AfterEnd = <<>>
       ELSE /\ Len(AfterEnd) = 1
            /\ AfterEnd[1].type = "done"
            /\ AfterEnd[1].payload.status =
                 (IF aend.aborted \/ aend.exit = "SIGTERM" THEN "interrupted"
                  ELSE IF aend.exit = "code0" THEN "success"
                  ELSE IF aend.exit = "code53" THEN "max_turns"
                  ELSE "error")

\* C21 witness: the process exited with code 0 after the token had tripped,
\* no done had been yielded, and the run closed with done{interrupted}
C21_Witness ==
  /\ adapter = "gemini"
  /\ aend.kind = "end" /\ aend.aborted /\ aend.exit = "code0"
  /\ apc = "closed"
  /\ ~DoneBeforeEnd
  /\ aout # <<>>
  /\ aout[Len(aout)].type = "done"
  /\ aout[Len(aout)].payload.status = "interrupted"


C24_BoundedCloseWait ==
  (apc \in {"awaitclose", "finwait"} /\ killAt >= 0) ~> (apc = "closed")


\* C25: an SSE event of another session makes the opencode run yield
\* nothing: reading it leaves the run in its read loop with nothing to yield
\* and no done, whatever its type, session.idle included
C25_SessionFilter ==
  [][ (amsgs' = amsgs + 1 /\ aforeign') =>
        /\ aqueue' = <<>>
        /\ aout' = aout
        /\ apc' = "stream"
        /\ adoneYielded' = adoneYielded
        /\ aend' = aend ]_vars

\* C25 witness: the run has yielded its init, has then read one event of
\* another session and has nothing to yield
C25_Witness ==
  /\ adapter = "opencode"
  /\ aforeign
  /\ amsgs = 1
  /\ apc = "stream"
  /\ aqueue = <<>>
  /\ Len(aout) = 1 /\ aout[1].type = "init"


C27_DoneThenSigterm ==
  (adapter = "opencode" /\ apc \in {"stream", "late", "ending"} /\ killAt >= 0) =>
     \E k \in 1..killAt :
       /\ aout[k].type = "done"
       /\ aout[k].payload.status = "interrupted"

\* C28 as stated: however an opencode run ends, the rejection of the
\* client's close() included, it has tried to close the client it had and
\* has sent SIGTERM to a server that has not closed
C28_OpenCodeShutdown ==
  (adapter = "opencode" /\ apc \in {"closed", "failed"}) =>
     /\ client # "open"
     /\ child = "running" => killAt >= 0


(***************************************************************************)
(* Properties of the line framer                                           *)
(***************************************************************************)
\* what parseNDJSON yields for the bytes b read as one chunk
Unchunked(b) ==
  LET d == Drain(chunkToString(b)) IN
    d.results \o (IF Len(d.buffer) > 0 THEN parseLine(d.buffer) ELSE <<>>)

\* C29 as stated: the results of parseNDJSON depend on the bytes of the
\* stream alone, not on how they are cut into chunks: every chunking yields
\* what the stream read as one chunk yields
C29_ChunkingIndependent ==
  fpc = "done" => fresults = Unchunked(finput)

\* the lines of a text: what stands before each line feed, and what follows
\* the last one
RECURSIVE LinesOf(_)
LinesOf(text) ==
  IF \A i \in 1..Len(text) : text[i] # "n" THEN << text >>
  ELSE LET i == CHOOSE k \in 1..Len(text) :
                  text[k] = "n" /\ \A j \in 1..(k - 1) : text[j] # "n"
       IN << SubSeq(text, 1, i - 1) >> \o LinesOf(SubSeq(text, i + 1, Len(text)))

\* a line without one trailing carriage return
Stripped(l) ==
  IF l # <<>> /\ l[Len(l)] = "r" THEN SubSeq(l, 1, Len(l) - 1) ELSE l

\* the one result a non-blank line stands for
ResultOf(l) ==
  IF JSONparse(Stripped(l)).ok
    THEN [ok |-> TRUE, data |-> JSONparse(Stripped(l)).data, raw |-> <<>>]
    ELSE [ok |-> FALSE, data |-> <<"none", <<>>>>, raw |-> Stripped(l)]

\* one result for each non-blank line, in the order of the lines
RECURSIVE Expected(_)
Expected(ls) ==
  IF ls = <<>> THEN <<>>
  ELSE (IF \A k \in 1..Len(Stripped(Head(ls))) : Stripped(Head(ls))[k] \in WhiteSpace
          THEN <<>> ELSE << ResultOf(Head(ls)) >>)
       \o Expected(Tail(ls))

\* C30: parseNDJSON never raises; when the stream is over it has yielded
\* exactly one result for each non-blank line of the decoded input, a last
\* line without line feed included, in the order of the lines: ok with the
\* value for a valid line, fail with the line less one trailing carriage
\* return for a malformed one, whatever came before
C30_OneResultPerLine ==
  /\ fpc \in {"off", "read", "done"}
  /\ fpc = "done" => fresults = Expected(LinesOf(ftext))

\* C30 witness: a malformed line ending in a carriage return, then a valid
\* last line without line feed: a fail result with the stripped line, then
\* an ok result
C30_Witness ==
  /\ fpc = "done"
  /\ finput = <<"q", "r", "n", "1">>
  /\ fcuts = {2}
  /\ fresults = << [ok |-> FALSE, data |-> <<"none", <<>>>>, raw |-> <<"q">>],
                   [ok |-> TRUE, data |-> <<"number", <<"1">>>>, raw |-> <<>>] >>

(***************************************************************************)
(* Claims C31 to C40                                                       *)
(***************************************************************************)
\* the names registered at the moment, by the history of successful calls
Live == {a \in AgentTypes : regStamp[a] > 0}

\* C31: the registry behaves as an insertion-ordered name-keyed map:
\* register fails exactly when the name is registered at the time of the
\* call and then leaves the registry unchanged, unregister returns true
\* exactly when the name was registered, and list returns exactly the
\* registered names in the order of their latest successful registration.
C31_RegistryIsOrderedMap ==
  regCall.op # "none" =>
    LET was == \E i \in 1..Len(regCall.before) : regCall.before[i][1] = regCall.agent
    IN /\ regCall.op = "register" =>
            /\ regCall.threw <=> was
            /\ regCall.threw => regAdapters = regCall.before
       /\ regCall.op = "unregister" => (regCall.ret <=> was)
       /\ regCall.op = "list" =>
            /\ Len(regCall.names) = Cardinality(Live)
            /\ \A i \in 1..Len(regCall.names) : regCall.names[i] \in Live
            /\ \A i, j \in 1..Len(regCall.names) :
                 i < j => regStamp[regCall.names[i]] < regStamp[regCall.names[j]]

\* list after a name was unregistered and registered again behind another
C31_Witness ==
  /\ regCall.op = "list"
  /\ regCall.names = <<"codex", "claude-code">>
  /\ regStamp["claude-code"] > regStamp["codex"]
  /\ regStamp["claude-code"] >= 3

\* the level of a capability of the policy under study, absent read as ask
LevelOf(policy, c) == IF policy[c] = Absent THEN "ask" ELSE policy[c]

\* C32: for every capability triple (absent counts as ask) the Codex
\* mapping yields sandbox read-only when fileWrite or shellExecute is deny,
\* danger-full-access when both are allow, workspace-write otherwise;
\* approval never exactly when all three are allow, else untrusted when any
\* is ask, else on-request; network enabled exactly when networkAccess is
\* allow.
C32_CodexMapping ==
  optResult.fn = "codex" =>
    LET fw == LevelOf(optPolicy, "fileWrite")
        sh == LevelOf(optPolicy, "shellExecute")
        net == LevelOf(optPolicy, "networkAccess")
    IN /\ (fw = "deny" \/ sh = "deny") => optResult.sandboxMode = "read-only"
       /\ (fw = "allow" /\ sh = "allow") =>
            optResult.sandboxMode = "danger-full-access"
       /\ (~(fw = "deny" \/ sh = "deny") /\ ~(fw = "allow" /\ sh = "allow")) =>
            optResult.sandboxMode = "workspace-write"
       /\ (optResult.approvalPolicy = "never") <=>
            (fw = "allow" /\ sh = "allow" /\ net = "allow")
       /\ (~(fw = "allow" /\ sh = "allow" /\ net = "allow")
           /\ "ask" \in {fw, sh, net}) => optResult.approvalPolicy = "untrusted"
       /\ (~(fw = "allow" /\ sh = "allow" /\ net = "allow")
           /\ "ask" \notin {fw, sh, net}) => optResult.approvalPolicy = "on-request"
       /\ optResult.networkAccessEnabled <=> (net = "allow")

\* both writers allowed, the network denied: full access, on request, no
\* network
C32_Witness ==
  /\ optResult.fn = "codex"
  /\ optPolicy.fileWrite = "allow"
  /\ optPolicy.shellExecute = "allow"
  /\ optPolicy.networkAccess = "deny"
  /\ optResult.sandboxMode = "danger-full-access"
  /\ optResult.approvalPolicy = "on-request"
  /\ ~optResult.networkAccessEnabled

\* the capability a tool name stands for when it is one of the names the
\* callback knows, "none" otherwise
KnownCapability(name) ==
  IF name \in {WriteName, EditName, MultiEditName, NotebookEditName}
  THEN "fileWrite"
  ELSE IF name = BashName THEN "shellExecute"
  ELSE IF name = WebFetchName THEN "networkAccess"
  ELSE "none"

\* the tool names that are plain identifiers
PlainNames == {n \in ToolNames : n # <<>> /\ \A i \in 1..Len(n) : n[i] \in Letters}

\* C33: for every capability triple (absent counts as ask) the Claude Code
\* mapping yields bypass mode exactly when all three are allow, accept-edits
\* exactly when fileWrite is allow and the other two are ask, and otherwise
\* default mode with a callback that returns true when the tool's
\* capability is allow, false when it is deny, and undefined when it is ask
\* or the tool maps to no capability.
C33_ClaudeMapping ==
  optResult.fn = "claude" =>
    LET fw == LevelOf(optPolicy, "fileWrite")
        sh == LevelOf(optPolicy, "shellExecute")
        net == LevelOf(optPolicy, "networkAccess")
        allAllow == fw = "allow" /\ sh = "allow" /\ net = "allow"
        edits == fw = "allow" /\ sh = "ask" /\ net = "ask"
        name == IF optTool.toolName # NoName THEN optTool.toolName ELSE optTool.name
        cap == KnownCapability(name)
        level == IF cap = "none" THEN "none" ELSE LevelOf(optPolicy, cap)
    IN /\ (optResult.permissionMode = "bypassPermissions") <=> allAllow
       /\ (optResult.permissionMode = "acceptEdits") <=> edits
       /\ (~allAllow /\ ~edits) =>
            /\ optResult.permissionMode = "default"
            /\ optResult.callback
            /\ (name \in PlainNames \cup {NoName, <<>>}) =>
                 optResult.verdict =
                   (IF level = "allow" THEN "true"
                    ELSE IF level = "deny" THEN "false"
                    ELSE "undefined")

\* shellExecute is allowed and fileWrite denied: the callback lets Bash
\* through, given as the name of a context without toolName
C33_Witness ==
  /\ optResult.fn = "claude"
  /\ optPolicy.fileWrite = "deny"
  /\ optPolicy.shellExecute = "allow"
  /\ optPolicy.networkAccess = Absent
  /\ optTool = [toolName |-> NoName, name |-> BashName]
  /\ optResult.permissionMode = "default"
  /\ optResult.verdict = "true"

\* an array is sorted by code units and holds no name twice
StrictlySorted(a) == \A i \in 1..(Len(a) - 1) : Less(a[i], a[i + 1])

\* C34: for every policy and every user-provided allowedTools and
\* disallowedTools, the Gemini tool configuration puts a capability's tools
\* in the deny-set when the capability is deny and in the allow-set when it
\* is allow, merged with the user's lists; deny overrides allow (a name of
\* the deny-set is not in the allow-set), so the two sets are disjoint.
C34_GeminiToolConfig ==
  optResult.fn = "geminiTools" =>
    LET allowSet == SetOf(optResult.allowedTools)
        denySet == SetOf(optResult.disallowedTools)
        caps == {"fileWrite", "shellExecute", "networkAccess"}
        capAllow == UNION {CAPABILITY_TOOL_GROUPS[c] :
                             c \in {k \in caps : LevelOf(optPolicy, k) = "allow"}}
        capDeny == UNION {CAPABILITY_TOOL_GROUPS[c] :
                            c \in {k \in caps : LevelOf(optPolicy, k) = "deny"}}
    IN /\ denySet = capDeny \cup SetOf(optOptions.disallowedTools)
       /\ allowSet = (capAllow \cup SetOf(optOptions.allowedTools)) \ denySet
       /\ allowSet \cap denySet = {}
       /\ StrictlySorted(optResult.allowedTools)
       /\ StrictlySorted(optResult.disallowedTools)

\* fileWrite is allowed but the user disallows edit, and allows a tool of
\* their own: edit is denied, the custom tool allowed
C34_Witness ==
  /\ optResult.fn = "geminiTools"
  /\ optPolicy.fileWrite = "allow"
  /\ optPolicy.shellExecute = "allow"
  /\ optPolicy.networkAccess = "deny"
  /\ optOptions.disallowedTools = <<EditTool>>
  /\ optOptions.allowedTools = <<CustomTool, EditTool>>
  /\ optResult.allowedTools = <<ShellTool, CustomTool>>
  /\ optResult.disallowedTools = <<EditTool, WebfetchTool>>

\* the arguments the command starts with: format, prompt, then the model
\* and the turn limit when given
CommandHead ==
  <<"--output-format", "stream-json", "--prompt", optPrompt>>
  \o (IF optOptions.model \notin {<<>>, <<"">>}
      THEN <<"--model", optOptions.model[1]>> ELSE <<>>)
  \o (IF optOptions.maxTurns # <<>>
      THEN <<"--max-session-turns", String(optOptions.maxTurns[1])>> ELSE <<>>)

AllowedFlag ==
  IF optResult.toolConfig.allowedTools # <<>>
  THEN <<"--allowed-tools", Join(optResult.toolConfig.allowedTools)>> ELSE <<>>

DisallowedFlag ==
  IF optResult.toolConfig.disallowedTools # <<>>
  THEN <<"--disallowed-tools", Join(optResult.toolConfig.disallowedTools)>>
  ELSE <<>>

C36_NoAdapterEventAfterTrip ==
  (ptrip.at >= 0 /\ ~ptrip.ready) =>
    \A k \in (ptrip.at + 1)..Len(pout) : pout[k].origin = "driver"

\* the adapter of task i has yielded a k-th event, and no done before it
YieldedUpToDone(i, k) ==
  /\ i <= ntasks
  /\ Len(pproduced[i]) >= k
  /\ \A j \in 1..(k - 1) : pproduced[i][j].type # "done"

\* the k-th event task i's adapter yielded has been delivered
DeliveredTo(i, k) ==
  LET got == SelectSeq(pout, LAMBDA e : e.task = i /\ e.origin = "adapter")
  IN Len(got) >= k /\ got[k] = pproduced[i][k]

C38_AdapterOneDone ==
  /\ \A k \in DoneIdx(aout) : k = Len(aout)
  /\ (apc = "closed" /\ aend.kind # "return") => Cardinality(DoneIdx(aout)) = 1

\* C39: on every exit of runAgent and runParallel after an adapter's run was
\* invoked (adapter done, synthesized terminal, cancellation, or the caller
\* closing the driver's stream early), the driver has requested the close
\* (return) of every adapter stream that has not completed on its own.
C39_StreamsClosed ==
  /\ (outcome \in {"returned", "closed"} /\ runInvoked) =>
        (returnCalled \/ gen = "completed")
  /\ (poutcome \in {"returned", "closed"}) =>
        \A i \in Tasks : prunInvoked[i] => (preturn[i] \/ pgen[i] = "completed")

\* the caller closes runParallel's stream at the yield of task 1's first
\* event while task 2's pull is still in flight: both streams are closed
C39_Witness ==
  /\ poutcome = "closed"
  /\ ntasks = 2
  /\ ptrip.at < 0
  /\ Len(pout) = 1 /\ pout[1].task = 1 /\ pout[1].type = "text"
  /\ pgen[2] = "running"
  /\ preturn[1] /\ preturn[2]

\* C40: every built-in adapter that registers an abort listener on the
\* caller's token has removed it on every exit of run on which the token has
\* not tripped, the exits before streaming starts included.
C40_ListenerRemoved ==
  (lpc \in {"closed", "failed"} /\ labortSignal = "live") => ~lonAbort

====
